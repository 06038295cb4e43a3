------------------------------ MODULE Services ------------------------------
(***************************************************************************)
(* What the plugins share: the event bus and the registry of services.     *)
(*                                                                         *)
(* EventBus::publish runs the handlers while it holds mutex_ shared, so a  *)
(* handler may publish again (shared_mutex admits a second reader even     *)
(* when a writer waits) and a writer waits for every publish to end.       *)
(* ServiceRegistry keeps an untyped pointer and, beside it, the type it    *)
(* was registered with.                                                    *)
(***************************************************************************)
EXTENDS Naturals, Sequences, FiniteSets, Functions

CONSTANTS
    Threads,
    Events,
    Kinds,       \* what handlers do: "plain", "throws", "publishes", "subscribes"
    Republished, \* event -> the event that a "publishes" handler of an event publishes
    Services,    \* names of services; the empty name is not one of them
    Types,
    MaxOps       \* bound: operations begun

\* The constants are of their kinds.
ServicesAssumption ==
    Republished \in [Events -> Events] /\ MaxOps \in Nat

VARIABLES
    handlers_,   \* event -> sequence of [id, kind]
    next_id_,
    frames,      \* publishes a thread is in, the innermost last: [event, called]
    writer,      \* the write a thread waits to do
    removed,     \* subscriptions whose unsubscribe (or clear) has returned
    services_, type_ids_,
    got,         \* the last pointer getService returned: [asked, given]
    ops

bus == <<handlers_, next_id_, frames, writer, removed>>
registry == <<services_, type_ids_, got>>
vars == <<bus, registry, ops>>

NoWrite == [op |-> "none"]

Init ==
    /\ handlers_ = <<>> /\ next_id_ = 0
    /\ frames = [t \in Threads |-> <<>>]
    /\ writer = [t \in Threads |-> NoWrite]
    /\ removed = {}
    /\ services_ = <<>> /\ type_ids_ = <<>>
    /\ got = <<>>
    /\ ops = 0

Op == ops < MaxOps /\ ops' = ops + 1
Free(t) == frames[t] = <<>> /\ writer[t] = NoWrite
Subscribers(e) == IF e \in DOMAIN handlers_ THEN handlers_[e] ELSE <<>>
Subscribed == UNION {{Subscribers(e)[i].id : i \in DOMAIN Subscribers(e)} : e \in Events}
Put(f, x, y) == [z \in DOMAIN f \cup {x} |-> IF z = x THEN y ELSE f[z]]

-----------------------------------------------------------------------------
(* EventBus                                                                 *)

Ask(t, write) ==
    /\ Free(t) /\ Op
    /\ writer' = [writer EXCEPT ![t] = write]
    /\ UNCHANGED <<handlers_, next_id_, frames, removed, registry>>

\* the unique lock
NoReader == \A t \in Threads : frames[t] = <<>>
Wrote(t) == writer' = [writer EXCEPT ![t] = NoWrite] /\ UNCHANGED <<frames, registry, ops>>

subscribe(t) ==
    /\ writer[t].op = "subscribe" /\ NoReader
    /\ handlers_' = Put(handlers_, writer[t].event,
                        Append(Subscribers(writer[t].event), [id |-> next_id_, kind |-> writer[t].kind]))
    /\ next_id_' = next_id_ + 1
    /\ Wrote(t) /\ UNCHANGED removed

\* remove_if and erase: those with another id, in their order
Without(s, id) ==
    LET kept[n \in 0 .. Len(s)] ==
            IF n = 0 THEN <<>>
            ELSE IF s[n].id = id THEN kept[n - 1] ELSE Append(kept[n - 1], s[n])
    IN kept[Len(s)]

unsubscribe(t) ==
    /\ writer[t].op = "unsubscribe" /\ NoReader
    /\ handlers_' = [e \in DOMAIN handlers_ |-> Without(handlers_[e], writer[t].id)]
    /\ removed' = removed \cup {writer[t].id}
    /\ Wrote(t) /\ UNCHANGED next_id_

clear(t) ==
    /\ writer[t].op = "clear" /\ NoReader
    /\ handlers_' = <<>>
    /\ removed' = removed \cup Subscribed
    /\ Wrote(t) /\ UNCHANGED next_id_

\* publish: begin, one handler after the other, end.  What a handler throws
\* is caught; one that subscribes waits for the lock its own thread holds.
Enter(t, e) == frames' = [frames EXCEPT ![t] = Append(@, [event |-> e, called |-> <<>>])]
Top(t) == frames[t][Len(frames[t])]
Due(t) == Subscribers(Top(t).event)[Len(Top(t).called) + 1]

\* A wrong publish, that never gives the shared lock back.
publishKeepsLock(t) ==
    /\ UNCHANGED <<handlers_, next_id_, removed, registry>>
    /\ \/ /\ Free(t) /\ Op
          /\ \E e \in Events : Enter(t, e)
          /\ UNCHANGED writer
       \/ /\ frames[t] # <<>> /\ writer[t] = NoWrite
          /\ Len(Top(t).called) < Len(Subscribers(Top(t).event))
          /\ LET calling == [frames EXCEPT ![t][Len(frames[t])].called = Append(@, Due(t).id)]
             IN frames' = IF Due(t).kind = "publishes"
                          THEN [calling EXCEPT ![t] =
                                   Append(@, [event |-> Republished[Top(t).event], called |-> <<>>])]
                          ELSE calling
          /\ writer' = IF Due(t).kind # "subscribes" THEN writer
                       ELSE [writer EXCEPT ![t] = [op |-> "subscribe", event |-> Top(t).event,
                                                   kind |-> "plain"]]
          /\ UNCHANGED ops
       \/ /\ frames[t] # <<>> /\ writer[t] = NoWrite
          /\ Len(Top(t).called) = Len(Subscribers(Top(t).event))
          /\ frames' = frames
          /\ UNCHANGED <<writer, ops>>

publish(t) ==
    /\ UNCHANGED <<handlers_, next_id_, removed, registry>>
    /\ \/ /\ Free(t) /\ Op
          /\ \E e \in Events : Enter(t, e)
          /\ UNCHANGED writer
       \/ /\ frames[t] # <<>> /\ writer[t] = NoWrite
          /\ Len(Top(t).called) < Len(Subscribers(Top(t).event))
          /\ LET calling == [frames EXCEPT ![t][Len(frames[t])].called = Append(@, Due(t).id)]
             IN frames' = IF Due(t).kind = "publishes"
                          THEN [calling EXCEPT ![t] =
                                   Append(@, [event |-> Republished[Top(t).event], called |-> <<>>])]
                          ELSE calling
          /\ writer' = IF Due(t).kind # "subscribes" THEN writer
                       ELSE [writer EXCEPT ![t] = [op |-> "subscribe", event |-> Top(t).event,
                                                   kind |-> "plain"]]
          /\ UNCHANGED ops
       \/ /\ frames[t] # <<>> /\ writer[t] = NoWrite
          /\ Len(Top(t).called) = Len(Subscribers(Top(t).event))
          /\ frames' = [frames EXCEPT ![t] = SubSeq(@, 1, Len(@) - 1)]
          /\ UNCHANGED <<writer, ops>>

-----------------------------------------------------------------------------
(* ServiceRegistry: an object is known by the type it was made with          *)

registerService(name, type) ==
    /\ services_' = Put(services_, name, type)
    /\ type_ids_' = Put(type_ids_, name, type)
    /\ UNCHANGED got

getService(name, type) ==
    /\ name \in DOMAIN services_
    /\ name \in DOMAIN type_ids_ => type_ids_[name] = type
    /\ got' = [asked |-> type, given |-> services_[name]]
    /\ UNCHANGED <<services_, type_ids_>>

unregisterService(name) ==
    /\ type_ids_' = Restrict(type_ids_, DOMAIN type_ids_ \ {name})
    /\ services_' = Restrict(services_, DOMAIN services_ \ {name})
    /\ UNCHANGED got

\* hasService and listServices read the same map
listServices == DOMAIN services_

clearServices == services_' = <<>> /\ type_ids_' = <<>> /\ UNCHANGED got

Registry ==
    /\ Op /\ NoReader   \* the bus and the registry share nothing: one at a time
    /\ \/ \E name \in Services, type \in Types :
              registerService(name, type) \/ getService(name, type)
       \/ \E name \in listServices : unregisterService(name)
       \/ clearServices
    /\ UNCHANGED bus

-----------------------------------------------------------------------------
Writes ==
    {w \in [op : {"subscribe"}, event : Events, kind : Kinds] :
         w.kind = "publishes" => Republished[w.event] # w.event}   \* or it would never end
        \cup {[op |-> "unsubscribe", id |-> i] : i \in {j \in 0..MaxOps : j < next_id_}}
        \cup {[op |-> "clear"]}

Done == ops = MaxOps /\ \A t \in Threads : Free(t)

Next ==
    \/ \E t \in Threads : \/ \E w \in Writes : Ask(t, w)
                          \/ subscribe(t) \/ unsubscribe(t) \/ clear(t) \/ publish(t)
    \/ Registry
    \/ Done /\ UNCHANGED vars

Spec == Init /\ [][Next]_vars

\* a publish goes from handler to handler, and a writer gets the lock if
\* publishes keep leaving it free
Fairness ==
    \A t \in Threads : WF_vars(~Free(t) /\ publish(t)) /\ SF_vars(subscribe(t) \/ unsubscribe(t) \/ clear(t))
FairSpec == Spec /\ Fairness

-----------------------------------------------------------------------------
TypeOK ==
    /\ DOMAIN handlers_ \subseteq Events
    /\ \A i \in Subscribed : i < next_id_
    /\ DOMAIN services_ \subseteq Services
    /\ Range(services_) \cup Range(type_ids_) \subseteq Types
    /\ ops \in 0..MaxOps

\* A publish that returns has called every handler of its event, in the order
\* of subscription, whatever threads did meanwhile and whatever handlers
\* threw: exception isolation (event_bus.h:45).
DeliversToAll ==
    [][\A t \in Threads :
          Len(frames'[t]) < Len(frames[t]) =>
              Top(t).called = [i \in DOMAIN Subscribers(Top(t).event) |-> Subscribers(Top(t).event)[i].id]]_vars

\* No handler is called once its unsubscribe has returned (its captures may
\* be gone by then), nor one whose subscribe had not returned.
NothingAfterUnsubscribe ==
    [][\A t \in Threads :
          frames[t] # <<>> /\ Len(frames'[t]) >= Len(frames[t]) =>
              LET now == frames'[t][Len(frames[t])].called IN
              Len(now) > Len(Top(t).called) => now[Len(now)] \notin removed]_vars

\* A pointer that getService returns points to an object of the type asked
\* for: the two maps never disagree.
TypedPointers == got = <<>> \/ got.asked = got.given

\* Every publish and every subscribe that has begun returns, publishes from
\* handlers included.
CallReturns(t) == ~Free(t) ~> Free(t)
=============================================================================
