----------------------------- MODULE SiteRegistry -----------------------------
(***************************************************************************)
(* What the table of allocation sites promises its callers: a registry that *)
(* gives a site at most one NGenerationArray, for good.  A call takes       *)
(* effect in one step between its invocation and its return.                *)
(***************************************************************************)
EXTENDS Naturals

CONSTANTS Threads, Sites

VARIABLES
  registry,   \* the array of each site, 0 when it has none
  call        \* the call each thread is in

vars == <<registry, call>>

Idle == [op |-> "none", hash |-> 0, phase |-> "idle", array |-> 0]

Init ==
  /\ registry = [s \in Sites |-> 0]
  /\ call = [t \in Threads |-> Idle]

Invoke(t) ==
  /\ call[t].phase = "idle"
  /\ \E op \in {"add", "get"}, h \in Sites \cup {0} :
       /\ op = "add" => h # 0
       /\ call' = [call EXCEPT ![t] = [op |-> op, hash |-> h, phase |-> "called", array |-> 0]]
  /\ UNCHANGED registry

Finish(t, array) ==
  call' = [call EXCEPT ![t] = [op |-> @.op, hash |-> @.hash, phase |-> "done", array |-> array]]

\* get_entry: the array the site has now, or NULL.  Id 0 is no site.
Lookup(t) ==
  /\ call[t].phase = "called" /\ call[t].op = "get"
  /\ Finish(t, IF call[t].hash = 0 THEN 0 ELSE registry[call[t].hash])
  /\ UNCHANGED registry

\* add_entry: the array the site has, or a new one.
Register(t) ==
  LET h == call[t].hash IN
  /\ call[t].phase = "called" /\ call[t].op = "add"
  /\ \/ registry[h] # 0 /\ UNCHANGED registry
     \/ /\ registry[h] = 0
        /\ registry' = [registry EXCEPT ![h] = registry'[h]]
        /\ registry'[h] \in Nat \ {0}
        /\ \A s \in Sites : registry[s] # registry'[h]
  /\ Finish(t, registry'[h])

Return(t) ==
  /\ call[t].phase = "done"
  /\ call' = [call EXCEPT ![t] = Idle]
  /\ UNCHANGED registry

Next == \E t \in Threads : Invoke(t) \/ Lookup(t) \/ Register(t) \/ Return(t)

Spec == Init /\ [][Next]_vars
=============================================================================
