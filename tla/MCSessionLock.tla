--------------------------- MODULE MCSessionLock ---------------------------
(* Small instances of SessionLock. *)
EXTENDS SessionLock, TLC

CONSTANTS a, b, c, d

(* b and c are two --apply of the same run; the others are runs. *)
MCProcs  == {a, b, c, d}
MCRunOf  == (a :> "r1") @@ (b :> "r2") @@ (c :> "r2") @@ (d :> "r3")
MCHostOf == (a :> "h1") @@ (b :> "h1") @@ (c :> "h1") @@ (d :> "h2")

(* Three processes of one host, each a run of its own. *)
OneHostProcs  == {a, b, c}
OneHostRunOf  == (a :> "r1") @@ (b :> "r2") @@ (c :> "r3")
OneHostHostOf == [p \in OneHostProcs |-> "h1"]

(* c, which is b in all but name, is never killed.                         *)
MCMortal == {a, b, d}

(* d, on a host of its own, is told to force the lock of the run of b and  *)
(* c, dead or alive.                                                       *)
None == {}
NobodyForces == [p \in MCProcs |-> "none"]
MCForceOf == [NobodyForces EXCEPT ![d] = "r2"]
=============================================================================
