--------------------------- MODULE LifecycleContract ---------------------------
(***************************************************************************)
(* What the Kronos control plane promises its clients, without threads,     *)
(* locks, executor or queue: an action is admitted or refused, at most one *)
(* is under way, it lands in the state the failure table allows, and its    *)
(* caller hears the outcome once or gives up once.  KronosLifecycle          *)
(* implements it; NightSlot builds the mining runs on it.                  *)
(*                                                                         *)
(* It promises nothing about who may load the model: an inference admitted  *)
(* before a stop may load it at any later time.                            *)
(***************************************************************************)

CONSTANTS Calls, NoOne

VARIABLES desired,    \* the state the last admitted action left wanted
          operation,  \* the action under way, or NoOne
          loaded,     \* the model is in memory
          action,     \* what an admitted call asked for
          admitted,   \* the calls that were not refused
          landing,    \* at most one landed action whose caller has not heard
          reply       \* what each caller was told

contractVars == <<desired, operation, loaded, action, admitted, landing, reply>>

Wanted(a) == IF a = "stop" THEN "stopped" ELSE "running"
Other(d)  == IF d = "stopped" THEN "running" ELSE "stopped"

ContractInit ==
  /\ desired = "running"
  /\ operation = NoOne
  /\ loaded = TRUE
  /\ action = [c \in Calls |-> "stop"]
  /\ admitted = {}
  /\ landing = {}
  /\ reply = [c \in Calls |-> "none"]

Fresh(c) == c \notin admitted /\ reply[c] = "none"

Refuse(c) ==
  /\ Fresh(c)
  /\ operation # NoOne
  /\ reply' = [reply EXCEPT ![c] = "E_BUSY"]
  /\ UNCHANGED <<desired, operation, loaded, action, admitted, landing>>

Accept(c, a) ==
  /\ Fresh(c)
  /\ operation = NoOne
  /\ operation' = c
  /\ admitted' = admitted \cup {c}
  /\ desired' = Wanted(a)
  /\ action' = [action EXCEPT ![c] = a]
  /\ UNCHANGED <<loaded, landing, reply>>

\* E_TIMEOUT: the caller stops waiting and the action goes on.
GiveUp(c) ==
  /\ c \in admitted
  /\ reply[c] = "none"
  /\ reply' = [reply EXCEPT ![c] = "E_TIMEOUT"]
  /\ UNCHANGED <<desired, operation, loaded, action, admitted, landing>>

\* Only a stop under way unloads.
Unload ==
  /\ operation # NoOne
  /\ action[operation] = "stop"
  /\ loaded' = FALSE
  /\ UNCHANGED <<desired, operation, action, admitted, landing, reply>>

Load ==
  /\ loaded' = TRUE
  /\ UNCHANGED <<desired, operation, action, admitted, landing, reply>>

\* A failed action falls back to the other stable state; a stop may do so only
\* while it has not dropped the model.
FallBack ==
  /\ operation # NoOne
  /\ desired' = Other(Wanted(action[operation]))
  /\ action[operation] = "stop" => loaded
  /\ UNCHANGED <<operation, loaded, action, admitted, landing, reply>>

\* The failure table: which outcomes an action may report in which state.
MayLand(a, res) ==
  \/ res = "ok" /\ desired = Wanted(a) /\ (a = "restore" => loaded)
  \/ res = "E_UNLOAD_FAILED" /\ a = "stop" /\ (desired = "running" => loaded)
  \/ res = "E_UNAVAILABLE" /\ a = "restore" /\ desired = "stopped"

Land(res) ==
  /\ operation # NoOne
  /\ landing = {}
  /\ MayLand(action[operation], res)
  /\ landing' = {[call |-> operation, res |-> res]}
  /\ operation' = NoOne
  /\ UNCHANGED <<desired, loaded, action, admitted, reply>>

\* The caller hears the outcome, unless it has given up.
Answer(l) ==
  /\ l \in landing
  /\ landing' = {}
  /\ \/ reply[l.call] = "none" /\ reply' = [reply EXCEPT ![l.call] = l.res]
     \/ UNCHANGED reply
  /\ UNCHANGED <<desired, operation, loaded, action, admitted>>

ContractNext ==
  \/ \E c \in Calls :
       Refuse(c) \/ GiveUp(c) \/ \E a \in {"stop", "restore"} : Accept(c, a)
  \/ Unload
  \/ Load
  \/ FallBack
  \/ \E res \in {"ok", "E_UNLOAD_FAILED", "E_UNAVAILABLE"} : Land(res)
  \/ \E l \in landing : Answer(l)

ContractSpec == ContractInit /\ [][ContractNext]_contractVars

\* Nobody hears an outcome before the action has landed, nobody who was refused has
\* an action, and an outcome is of an action that is neither under way nor about to
\* be told: each admitted action has one outcome, told once.
OutcomeOnce ==
  /\ \A c \in Calls : reply[c] = "E_BUSY" => c \notin admitted
  /\ \A c \in Calls : reply[c] \in {"ok", "E_UNLOAD_FAILED", "E_UNAVAILABLE"} =>
       c \in admitted /\ c # operation /\ \A l \in landing : l.call # c
  /\ \A l, m \in landing : l = m /\ l.call # operation
===============================================================================
