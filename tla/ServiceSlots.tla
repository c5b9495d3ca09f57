----------------------------- MODULE ServiceSlots -----------------------------
(***************************************************************************)
(* What the service manager promises about the processes it starts         *)
(* (crates/okena-services, manager/commands.rs): a service has one slot.   *)
(* A terminal takes the slot of its service when it is created, and only   *)
(* if the slot is free; it gives it up once and never has it again.        *)
(*                                                                         *)
(* There is one exception.  A manual restart lets go of the terminal some  *)
(* time before it kills it.  A service that is started in between is       *)
(* shared from then on: of it nothing is promised.                         *)
(***************************************************************************)
CONSTANTS Services, Terminals, NoService

VARIABLES
  holder,   \* the service whose slot the terminal took, for ever
  open,     \* the terminals that have not given their slot up
  leaving,  \* the terminals a manual restart has taken and is about to kill
  shared    \* the services that were started while a terminal of theirs was leaving

vars == <<holder, open, leaving, shared>>

Unused == {t \in Terminals : holder[t] = NoService}
Slot(s) == {t \in open : holder[t] = s}
Leaves(s) == \E t \in leaving : holder[t] = s

Init ==
  /\ holder = [t \in Terminals |-> NoService]
  /\ open = {}
  /\ leaving = {}
  /\ shared = {}

-------------------------------------------------------------------------------
(* Some services are started at once: each new terminal is for one of them. *)
Take(new, service) ==
  /\ \A t, u \in new : service[t] = service[u] => t = u
  /\ \A t \in new :
       Slot(service[t]) = {} \/ Leaves(service[t]) \/ service[t] \in shared
  /\ holder' = [t \in Terminals |-> IF t \in new THEN service[t] ELSE holder[t]]
  /\ open' = open \cup new
  /\ shared' = shared \cup {s \in Services : Leaves(s) /\ \E t \in new : service[t] = s}
  /\ UNCHANGED leaving

(* Terminals are killed, or their end is noticed.                          *)
GiveUp ==
  /\ open' \subseteq open
  /\ UNCHANGED <<holder, leaving, shared>>

(* A manual restart takes the terminal of the service: the one in its slot, *)
(* or one that gave it up before.                                          *)
Restart(t) ==
  /\ holder[t] \in Services
  /\ holder[t] \notin shared => Slot(holder[t]) \subseteq {t} /\ ~Leaves(holder[t])
  /\ leaving' = leaving \cup {t}
  /\ UNCHANGED <<holder, open, shared>>

(* The manual restart kills it.                                            *)
Kill(t) ==
  /\ t \in leaving
  /\ leaving' = leaving \ {t}
  /\ open' = open \ {t}
  /\ UNCHANGED <<holder, shared>>

Next ==
  \/ GiveUp
  \/ \E t \in Terminals : Restart(t) \/ Kill(t)
  \/ \E new \in SUBSET Unused : \E service \in [new -> Services] : Take(new, service)

Spec == Init /\ [][Next]_vars
===============================================================================
