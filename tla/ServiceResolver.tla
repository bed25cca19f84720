-------------------------- MODULE ServiceResolver --------------------------
(***************************************************************************)
(* The gRPC resolver of a service's addresses (infra/discovery/resolver):  *)
(* Build with its time limit, the goroutine that watches the registry and  *)
(* hands addresses to the connection, and Close, which may come at any     *)
(* time between.                                                           *)
(*                                                                         *)
(* The registry, the watcher it makes and the connection are external.     *)
(* The subset of the instances is that of SubsetRing.                      *)
(***************************************************************************)
EXTENDS Subsequences, SequencesExt

CONSTANTS
    Instances,      \* instances that may register
    RingOrder,      \* the instances in the order of the ring, from the selector key on
    Endpoint,       \* per instance the address it serves gRPC at, or None
    SubsetSize,     \* how many instances to connect to
    MaxChanges,     \* bound: changes of the registry
    MaxErrors,      \* bound: errors of a watcher that was not stopped
    None            \* no endpoint; no addresses yet

ASSUME SubsetAssumption ==
    /\ SubsetSize \in Nat \ {0} /\ MaxChanges \in Nat /\ MaxErrors \in Nat
    /\ RingOrder \in Seq(Instances) /\ ToSet(RingOrder) = Instances
    /\ \A j, k \in DOMAIN RingOrder : RingOrder[j] = RingOrder[k] => j = k

VARIABLES
    registry,   \* external: the instances registered, in their order
    changes,    \* external: how often they changed
    news,       \* external: they changed since the watcher said so
    errors,     \* external: errors of the watcher so far
    getter,     \* the goroutine of Build that calls GetWatcher
    watcher,    \* external: the watcher
    build,      \* the call of Build
    cancelled,  \* the resolver's context is cancelled
    closing,    \* the call of Close
    pc,         \* the goroutine that watches
    ins,        \* the instances it was given
    addrs,      \* external: the addresses of the connection
    late        \* history: updates since Close returned

outside == <<registry, changes, news, errors, watcher>>
vars == <<outside, getter, build, cancelled, closing, pc, ins, addrs, late>>

Addresses == {Endpoint[m] : m \in Instances} \ {None}

TypeOK ==
    /\ registry \in Seq(Instances) /\ changes \in Nat /\ news \in BOOLEAN
    /\ errors \in Nat
    /\ getter \in {"calling", "returned", "error"}
    /\ watcher \in {"none", "open", "stopped"}
    /\ build \in {"waiting", "built", "failed"}
    /\ cancelled \in BOOLEAN
    /\ closing \in {"no", "cancelled", "done"}
    /\ pc \in {"off", "check", "next", "update", "sleep", "ended"}
    /\ ins \in Seq(Instances)
    /\ addrs \in Seq(Addresses) \cup {None}
    /\ late \in Nat

Init ==
    /\ registry \in {RingOrder, <<>>} /\ changes = 0 /\ news = TRUE /\ errors = 0
    /\ getter = "calling" /\ watcher = "none" /\ build = "waiting"
    /\ cancelled = FALSE /\ closing = "no"
    /\ pc = "off" /\ ins = <<>> /\ addrs = None /\ late = 0

-----------------------------------------------------------------------------
(* From instances to addresses *)

\* Mutant: instances that serve at the same address are all kept.
Filtered_Duplicates(s) == Kept(s, {k \in DOMAIN s : Endpoint[s[k]] # None})

\* filterEndpoints: the instances that serve gRPC, one for each address.
Filtered(s) ==
    LET First(k) == \A j \in DOMAIN s : Endpoint[s[j]] = Endpoint[s[k]] => k <= j
    IN  Kept(s, {k \in DOMAIN s : Endpoint[s[k]] # None /\ First(k)})

\* ring.Members, restricted to the instances S: in the order of the ring.
OnRing[S \in SUBSET Instances] ==
    Kept(RingOrder, {k \in DOMAIN RingOrder : RingOrder[k] \in S})

\* subset.Subset: the first on the ring, unless there are few anyway.
Subset(s) ==
    IF Len(s) <= SubsetSize THEN s ELSE SubSeq(OnRing[ToSet(s)], 1, SubsetSize)

\* mapToAddresses, of what update makes of the instances s.
AddressesOf(s) ==
    LET chosen == Subset(Filtered(s))
    IN  [k \in DOMAIN chosen |-> Endpoint[chosen[k]]]

-----------------------------------------------------------------------------
(* Build *)

\* external: GetWatcher returns, in time or not.
GetWatcher ==
    /\ getter = "calling"
    /\ \/ getter' = "returned" /\ watcher' = "open"
       \/ getter' = "error" /\ UNCHANGED watcher
    /\ UNCHANGED <<registry, changes, news, errors, build, cancelled, closing, pc, ins,
                   addrs, late>>

\* Build has waited for its goroutine.
BuildReturns ==
    /\ build = "waiting"
    /\ \/ /\ getter = "returned"
          /\ build' = "built" /\ pc' = "check"
          /\ UNCHANGED cancelled
       \/ /\ getter = "error"
          /\ build' = "failed" /\ cancelled' = TRUE
          /\ UNCHANGED pc
    /\ UNCHANGED <<outside, getter, closing, ins, addrs, late>>

\* Mutant: Build waits for as long as it takes.
TimerSet_Never == FALSE

\* timeout > 0: NewServiceClient sets five seconds, NewBuilder ten.
TimerSet == TRUE

\* Build gives up; a watcher that arrives later is nobody's.
BuildTimesOut ==
    /\ build = "waiting"
    /\ TimerSet
    /\ build' = "failed" /\ cancelled' = TRUE
    /\ UNCHANGED <<outside, getter, closing, pc, ins, addrs, late>>

-----------------------------------------------------------------------------
(* The goroutine that watches *)

\* Mutant: the context is not looked at.
Stops_Never == FALSE

\* The head of the loop of watch.
Stops == cancelled

Check ==
    /\ pc = "check"
    /\ pc' = IF Stops THEN "ended" ELSE "next"
    /\ UNCHANGED <<outside, getter, build, cancelled, closing, ins, addrs, late>>

\* external: Next returns the instances when they changed, or at its first call.
NextReturns ==
    /\ pc = "next" /\ watcher = "open" /\ news
    /\ ins' = registry /\ news' = FALSE /\ pc' = "update"
    /\ UNCHANGED <<registry, changes, errors, watcher, getter, build, cancelled, closing,
                   addrs, late>>

\* Mutant: any error ends the goroutine.
AfterError_Ends == "ended"

\* An error other than that of a cancelled context is retried a second later.
AfterError == "sleep"

\* external: Next fails, now and then, or because the watcher was stopped.
NextFails ==
    /\ pc = "next"
    /\ \/ watcher = "stopped" /\ UNCHANGED errors
       \/ watcher = "open" /\ errors < MaxErrors /\ errors' = errors + 1
    /\ pc' = AfterError
    /\ UNCHANGED <<registry, changes, news, watcher, getter, build, cancelled, closing, ins,
                   addrs, late>>

\* external: Next returns when its context is cancelled.
NextCancelled ==
    /\ pc = "next" /\ cancelled
    /\ pc' = "ended"
    /\ UNCHANGED <<outside, getter, build, cancelled, closing, ins, addrs, late>>

\* update: whatever comes out is handed to the connection.
Update ==
    /\ pc = "update"
    /\ addrs' = AddressesOf(ins)
    /\ pc' = "check"
    /\ late' = IF closing = "done" THEN late + 1 ELSE late
    /\ UNCHANGED <<outside, getter, build, cancelled, closing, ins>>

Wake ==
    /\ pc = "sleep"
    /\ pc' = "check"
    /\ UNCHANGED <<outside, getter, build, cancelled, closing, ins, addrs, late>>

-----------------------------------------------------------------------------
(* Close and the environment *)

\* Close, its first statement.
Close ==
    /\ build = "built" /\ closing = "no"
    /\ closing' = "cancelled" /\ cancelled' = TRUE
    /\ UNCHANGED <<outside, getter, build, pc, ins, addrs, late>>

\* Close, the rest: the watcher is stopped, or fails to be, which is logged.
StopWatcher ==
    /\ closing = "cancelled"
    /\ closing' = "done"
    /\ watcher' \in {watcher, "stopped"}
    /\ UNCHANGED <<registry, changes, news, errors, getter, build, cancelled, pc, ins, addrs,
                   late>>

\* external: an instance registers or is gone.
Change ==
    /\ changes < MaxChanges
    /\ \E m \in Instances :
          registry' = IF m \in ToSet(registry)
                      THEN Kept(registry, {k \in DOMAIN registry : registry[k] # m})
                      ELSE Append(registry, m)
    /\ changes' = changes + 1 /\ news' = TRUE
    /\ UNCHANGED <<errors, watcher, getter, build, cancelled, closing, pc, ins, addrs, late>>

Next ==
    \/ GetWatcher \/ BuildReturns \/ BuildTimesOut
    \/ Check \/ NextReturns \/ NextFails \/ NextCancelled \/ Update \/ Wake
    \/ Close \/ StopWatcher \/ Change

\* The goroutines run and timers fire; the watcher reports a change and honours
\* its context.  GetWatcher may never return, and Close may never be called.
Fairness ==
    /\ WF_vars(BuildReturns) /\ WF_vars(BuildTimesOut)
    /\ WF_vars(Check) /\ WF_vars(Update) /\ WF_vars(Wake)
    /\ WF_vars(NextReturns) /\ WF_vars(NextCancelled)
    /\ WF_vars(StopWatcher)

Spec == Init /\ [][Next]_vars /\ Fairness

-----------------------------------------------------------------------------
(* Properties *)

\* The connection never gets more than SubsetSize addresses, nor one of them
\* twice, although instances share addresses, or have none, and the subset is
\* taken of instances.
AddressesDistinct ==
    addrs # None => /\ Len(addrs) <= SubsetSize
                    /\ \A j, k \in DOMAIN addrs : addrs[j] = addrs[k] => j = k

\* After Close has returned the addresses change once more at most, by an
\* update that was on its way.
CloseStopsUpdates == late <= 1

\* Build does not hang, even if the registry never answers.
BuildEnds == <>(build # "waiting")

\* The goroutine that watches ends after Close, even when the watcher could
\* not be stopped or fails with errors of its own.
WatchEnds == closing = "done" ~> pc = "ended"

\* Neither Build nor the goroutine it starts outlives what it waits for
\* (discovery.go:94, resolver.go:56).
GoroutinesEnd == BuildEnds /\ WatchEnds

\* Once the registry is quiet, an open resolver has given the connection what
\* is registered, although changes came while it was busy and Next failed
\* between.
AddressesCatchUp ==
    <>[](build = "built" /\ closing = "no" => addrs = AddressesOf(registry))

\* resolver.go:81, zero endpoints are refused to be written.
EmptyRefused == [][Update => addrs' # <<>>]_vars
=============================================================================
