--------------------------- MODULE CommandService ---------------------------
(***************************************************************************)
(* What the command channel of the bridge promises a host: the host has    *)
(* one command at a time; the device executes it at most once, and only    *)
(* while it is the host's current command; the host takes an answer only   *)
(* for the current command and only after it was executed.  A host that    *)
(* starts over abandons its current command, executed or not.              *)
(***************************************************************************)
EXTENDS Integers, Sequences

VARIABLES current,  \* the number of the host's current command
          executed, \* the commands executed, in order
          answered  \* the commands whose answers the host took, in order

serviceVars == <<current, executed, answered>>

Done(c) == \E i \in DOMAIN executed : executed[i] = c

ServiceInit == current = 1 /\ executed = <<>> /\ answered = <<>>

Execute ==
  /\ ~Done(current)
  /\ executed' = Append(executed, current)
  /\ UNCHANGED <<current, answered>>

Answer ==
  /\ Done(current)
  /\ answered' = Append(answered, current)
  /\ current' = current + 1
  /\ UNCHANGED executed

Abandon == current' = current + 1 /\ UNCHANGED <<executed, answered>>

ServiceNext == Execute \/ Answer \/ Abandon

ServiceSpec == ServiceInit /\ [][ServiceNext]_serviceVars
=============================================================================
