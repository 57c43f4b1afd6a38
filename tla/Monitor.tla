------------------------------- MODULE Monitor -------------------------------
(***************************************************************************)
(* monitor.c next to the life of an interval set: `nft monitor' reads the  *)
(* events of each commit and shows the elements that came and went.  The   *)
(* kernel tells of one element at a time, the start of an interval and the *)
(* key behind its end, and the monitor has to join the two.                *)
(***************************************************************************)
EXTENDS IntervalSet

CONSTANT Lag      \* bound: a run starts with at most so many events unread

VARIABLES
    events,     \* what the socket of the monitor holds
    cached,     \* the set is in the cache of the monitor ...
    rgCache,    \* ... with the first half of an interval, set->rg_cache
    shown       \* what who follows its lines takes the set to hold

monVars == <<events, cached, rgCache, shown>>

ASSUME LagAssumption == Lag \in Nat

-----------------------------------------------------------------------------
(* nf_tables, not part of this repository: an event for each element that  *)
(* is added or deleted, in the order of the messages and of their lists.   *)
(* An element that is there already is added without one, and a deleted    *)
(* one is told as it was in the set.                                       *)
Earlier(e, f) == e.key < f.key \/ (e.key = f.key /\ e.end /\ ~f.end)
First(E)      == CHOOSE e \in E : \A f \in E : ~Earlier(f, e)

(* What is left of the list after each element, and the elements.          *)
Rest(list) ==
    LET f[n \in 0 .. Cardinality(list)] ==
            IF n = 0 THEN list ELSE f[n - 1] \ {First(f[n - 1])}
    IN  f

InOrder(list) == LET rest == Rest(list)
                 IN  [n \in 1 .. Cardinality(list) |-> First(rest[n - 1])]

(* set_insert_interval() marks a start with no end behind it, and the mark *)
(* stays with the element.  Mutant: it is left out.                        *)
NeverOpen(e, list) == FALSE
IsOpen(e, list) == ~e.end /\ \A f \in list : f.key <= e.key

Changed(E, m) == IF m.op = "DELETE" THEN {f \in E : \E e \in m.list : Same(e, f)}
                 ELSE {e \in m.list : \A f \in E : ~Same(e, f)}

EventsOf(E, m) ==
    LET order == InOrder(Changed(E, m))
    IN  [n \in 1 .. Len(order) |->
           [type |-> IF m.op = "DELETE" THEN "delelem" ELSE "newelem",
            elem |-> order[n], open |-> IsOpen(order[n], m.list)]]

(* The events of the first messages.                                       *)
Told ==
    LET f[i \in 0 .. Len(msgs)] ==
            IF i = 0 THEN <<>> ELSE f[i - 1] \o EventsOf(Carried[i - 1].to, msgs[i])
    IN  f

Notified == (IF made THEN <<>> ELSE <<[type |-> "newset"]>>) \o Told[Len(msgs)]

-----------------------------------------------------------------------------
MonInit == /\ Init
           /\ events = <<>> /\ cached = FALSE /\ rgCache = {} /\ shown = {}

Quiet == /\ \/ \E b \in Batches[kind] : Len(events) <= Lag /\ Run(b)
            \/ Command \/ CommandFails \/ Insert \/ InsertFails \/ Message
            \/ SendFails \/ Abort
         /\ UNCHANGED monVars

Commit == /\ Send
          /\ events' = events \o Notified
          /\ UNCHANGED <<cached, rgCache, shown>>

(* No event tells that an anonymous set goes.                              *)
Drop == /\ Destroy
        /\ events' = IF kind.anon THEN events ELSE Append(events, [type |-> "delset"])
        /\ UNCHANGED <<cached, rgCache, shown>>

(* netlink_events_cb() for a set: it is kept in the cache for good.        *)
SetEvent ==
    /\ events # <<>>
    /\ Head(events).type \in {"newset", "delset"}
    /\ cached' = TRUE
    /\ shown' = {}
    /\ events' = Tail(events)
    /\ UNCHANGED <<vars, rgCache>>

(* netlink_event_ignore_range_event(): the end that only says that nothing *)
(* is in front of the first interval.                                      *)
Ignored(e) == e.end /\ e.key = 0

(* netlink_event_range_cache(): the other half is there, or it is waited   *)
(* for, or there is none.                                                  *)
Waits(event) == rgCache = {} /\ ~event.open

(* A line of the monitor: elements that were added or deleted.             *)
Show(type, intervals) ==
    shown' = IF type = "newelem" THEN shown \cup intervals ELSE shown \ intervals

(* netlink_events_setelem_cb().                                            *)
Skipped(event) == ~cached \/ kind.anon \/ Ignored(event.elem)
ElemEvent ==
    /\ events # <<>>
    /\ LET event == Head(events)
       IN  /\ event.type \in {"newelem", "delelem"}
           /\ \/ /\ Skipped(event)
                 /\ UNCHANGED <<rgCache, shown>>
              \/ /\ ~Skipped(event)
                 /\ Waits(event)
                 /\ rgCache' = {event.elem}
                 /\ UNCHANGED shown
              \/ /\ ~Skipped(event)
                 /\ ~Waits(event)
                 /\ rgCache' = {}
                 /\ Show(event.type, Decompose({event.elem} \cup rgCache))
    /\ events' = Tail(events)
    /\ UNCHANGED <<vars, cached>>

MonNext == Quiet \/ Commit \/ Drop \/ SetEvent \/ ElemEvent
MonSpec == MonInit /\ [][MonNext]_<<vars, monVars>>

-----------------------------------------------------------------------------
(* Whoever follows the lines of the monitor ends up with the intervals     *)
(* that users put into the set: the halves that netlink_event_range_cache()*)
(* joins are those of one interval, through any batches, and no half is    *)
(* left over for the next event.                                           *)
MonitorFollows ==
    events = <<>> =>
        /\ rgCache = {}
        /\ kind.anon \/ shown = given
=============================================================================
