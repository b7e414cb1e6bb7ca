-------------------------- MODULE TimestampGenerator --------------------------
(***************************************************************************)
(* MonotonicTimestampGenerator (policies/timestamp_generator.rs): requests *)
(* on several threads draw timestamps from one generator whose system      *)
(* clock may stand still or go back, even before the epoch.                *)
(***************************************************************************)
EXTENDS Integers, Sequences

CONSTANTS Threads,       \* the threads that send requests
          ClockReadings, \* what the system clock may say; negative: before the epoch
          MaxStamps      \* bound on the timestamps of a behaviour

ASSUME ClockConstants == ClockReadings \subseteq Int

VARIABLES last,     \* AtomicI64
          drawing,  \* per thread: the value loaded and the one computed from it
          stamps    \* history: the timestamps returned, in order

clockVars == <<last, drawing, stamps>>

Idle == [pc |-> "idle", last |-> 0, cur |-> 0]

ClockInit ==
    /\ last = 0
    /\ drawing = [t \in Threads |-> Idle]
    /\ stamps = <<>>

(* The clock is trusted as long as it does not go back.                    *)
NextStampNotBefore(from, clock) == IF clock >= 0 /\ clock >= from THEN clock ELSE from + 1

(* compute_next                                                            *)
NextStamp(from, clock) == IF clock >= 0 /\ clock > from THEN clock ELSE from + 1

LoadLast(t) ==
    /\ drawing[t].pc = "idle" /\ Len(stamps) < MaxStamps
    /\ drawing' = [drawing EXCEPT ![t] = [pc |-> "loaded", last |-> last, cur |-> 0]]
    /\ UNCHANGED <<last, stamps>>

ComputeStamp(t, clock) ==
    /\ drawing[t].pc = "loaded"
    /\ drawing' = [drawing EXCEPT ![t].pc = "computed", ![t].cur = NextStamp(drawing[t].last, clock)]
    /\ UNCHANGED <<last, stamps>>

(* compare_exchange; a failure starts the loop again.                      *)
CompareExchange(t) ==
    /\ drawing[t].pc = "computed"
    /\ drawing' = [drawing EXCEPT ![t] = Idle]
    /\ IF last = drawing[t].last
       THEN last' = drawing[t].cur /\ stamps' = Append(stamps, drawing[t].cur)
       ELSE UNCHANGED <<last, stamps>>

ClockNext ==
    \E t \in Threads : \/ LoadLast(t)
                       \/ \E c \in ClockReadings : ComputeStamp(t, c)
                       \/ CompareExchange(t)

ClockSpec == ClockInit /\ [][ClockNext]_clockVars

(***************************************************************************)
(* Properties                                                              *)
(***************************************************************************)

(* Timestamps strictly grow in the order next_timestamp returns them,      *)
(* whichever threads draw them and wherever the clock goes: no two writes  *)
(* of a session carry the same one.                                        *)
StampsIncrease == \A i, j \in DOMAIN stamps : i < j => stamps[i] < stamps[j]
=============================================================================
