-------------------------------- MODULE MCChat --------------------------------
(* A part of SLASH_COMMAND_CATALOG, with what searchCliSlashCommands finds.  *)
EXTENDS Chat

SomeCommands == <<
  [id |-> "ask", insertion |-> "/ask", names |-> {"/ask"},
   found |-> {"/", "/c", "/cha", "/q", "/ask", "/chat"},
   needsSession |-> FALSE, needsPlan |-> FALSE],
  [id |-> "chat", insertion |-> "/chat", names |-> {"/chat"},
   found |-> {"/", "/c", "/cha", "/chat"},
   needsSession |-> FALSE, needsPlan |-> FALSE],
  [id |-> "auto", insertion |-> "/auto", names |-> {"/auto"},
   found |-> {"/", "/auto"},
   needsSession |-> FALSE, needsPlan |-> FALSE],
  [id |-> "explore", insertion |-> "/explore", names |-> {"/explore"},
   found |-> {"/", "/explore"},
   needsSession |-> FALSE, needsPlan |-> FALSE],
  [id |-> "plan", insertion |-> "/plan", names |-> {"/plan"},
   found |-> {"/", "/c", "/ask", "/plan"},
   needsSession |-> TRUE, needsPlan |-> FALSE],
  [id |-> "run", insertion |-> "/run", names |-> {"/run"},
   found |-> {"/", "/c", "/ru", "/run"},
   needsSession |-> TRUE, needsPlan |-> TRUE],
  [id |-> "new", insertion |-> "/new", names |-> {"/new"},
   found |-> {"/", "/new"},
   needsSession |-> FALSE, needsPlan |-> FALSE],
  [id |-> "stats", insertion |-> "/stats", names |-> {"/stats"},
   found |-> {"/", "/c", "/ru", "/run", "/stats"},
   needsSession |-> FALSE, needsPlan |-> FALSE],
  [id |-> "agents", insertion |-> "/agents", names |-> {"/agents"},
   found |-> {"/", "/agents"},
   needsSession |-> FALSE, needsPlan |-> FALSE],
  [id |-> "exit", insertion |-> "/exit", names |-> {"/exit", "/q"},
   found |-> {"/", "/c", "/cha", "/q", "/exit"},
   needsSession |-> FALSE, needsPlan |-> FALSE]>>

SomeTexts ==
  {"", "hello", "/explore x"} \cup UNION {SomeCommands[i].found : i \in DOMAIN SomeCommands}

(* One key stands for as many as lead to the next of these texts.            *)
OneKeyMore ==
  [t \in SomeTexts |->
     CASE t = ""         -> {"/", "hello"}
       [] t = "/"        -> {"/c", "/ru", "/q"}
       [] t = "/c"       -> {"/cha"}
       [] t = "/cha"     -> {"/chat"}
       [] t = "/ru"      -> {"/run"}
       [] t = "/explore" -> {"/explore x"}
       [] OTHER          -> {}]

SomePlain   == {"hello"}
SomeIntents == {"/explore x"}
=============================================================================
