----------------------------- MODULE FreshReads -----------------------------
(***************************************************************************)
(* What a controller engine promises its readers: a read answers with the  *)
(* state of the device at some moment between the request and the answer,  *)
(* or says that it failed.  The state of the device is the number of       *)
(* commands it has executed.                                               *)
(***************************************************************************)
EXTENDS Naturals

CONSTANTS Readers, Nothing

VARIABLES
    device,   \* commands the device has executed
    phase,    \* where each reader stands
    asked,    \* what the device had executed when the reader asked
    answer    \* the reader's answer

vars == <<device, phase, asked, answer>>

Init ==
    /\ device = 0
    /\ phase = [t \in Readers |-> "idle"]
    /\ asked = [t \in Readers |-> 0]
    /\ answer = [t \in Readers |-> Nothing]

Execute ==
    /\ device' = device + 1
    /\ UNCHANGED <<phase, asked, answer>>

Ask(t) ==
    /\ phase[t] = "idle"
    /\ phase' = [phase EXCEPT ![t] = "asked"]
    /\ asked' = [asked EXCEPT ![t] = device]
    /\ UNCHANGED <<device, answer>>

Answer(t, v) ==
    /\ phase[t] = "asked"
    /\ phase' = [phase EXCEPT ![t] = "answered"]
    /\ answer' = [answer EXCEPT ![t] = v]
    /\ UNCHANGED <<device, asked>>

Leave(t) ==
    /\ phase[t] = "answered"
    /\ phase' = [phase EXCEPT ![t] = "idle"]
    /\ asked' = [asked EXCEPT ![t] = 0]
    /\ answer' = [answer EXCEPT ![t] = Nothing]
    /\ UNCHANGED device

Next ==
    \/ Execute
    \/ \E t \in Readers : \/ Ask(t) \/ Leave(t)
                          \/ \E v \in (asked[t]..device) \cup {Nothing} : Answer(t, v)

Spec == Init /\ [][Next]_vars
=============================================================================
