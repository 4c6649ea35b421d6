----------------------------- MODULE DataStore -----------------------------
(***************************************************************************)
(* The store behind the simulated PLC (store.rs): a map from area and      *)
(* offset to bytes, area locks, CPU state, clock and user callbacks, all   *)
(* under one std::sync::Mutex.                                             *)
(*                                                                         *)
(* A section under the mutex is one step.  read_area, write_area and       *)
(* set_cpu_state have three: the access, fire_* taking the callback list   *)
(* out of the store, and fire_* putting it back after the callbacks ran.   *)
(***************************************************************************)
EXTENDS Integers, Sequences, FiniteSets

CONSTANTS
  Thread,    \* threads and tasks that share the store
  Area,      \* area codes
  Offset,    \* offsets within an area (db_number is part of the area here)
  Byte,      \* byte values; 0 is what an offset never written reads as
  Clock,     \* clock readings
  Callback,  \* callbacks that may be registered
  None       \* no value

ASSUME StoreConstants == 0 \in Byte

VARIABLES
  mem,        \* StoreInner::data
  locked,     \* locked_areas
  cpu,        \* cpu_state
  clock,      \* clock
  callbacks,  \* read_callbacks, write_callbacks and event_callbacks
  subscribed, \* what on_read, on_write and on_event were ever called with
  call        \* call[t]: the fire_* that t is inside, with the list it took

storeVars == <<mem, locked, cpu, clock, callbacks, subscribed, call>>

Kinds == {"read", "write", "event"}
Firing == [stage : {"take", "restore"}, kind : Kinds, taken : Seq(Callback)]
Fire(k) == [stage |-> "take", kind |-> k, taken |-> <<>>]
Free(t) == call[t] = None

StoreTypeOK ==
  /\ mem \in [Area -> [Offset -> Byte]]
  /\ locked \subseteq Area
  /\ cpu \in {"run", "stop"}
  /\ clock \in Clock
  /\ callbacks \in [Kinds -> Seq(Callback)]
  /\ subscribed \in [Kinds -> SUBSET Callback]
  /\ call \in [Thread -> Firing \cup {None}]

StoreInit ==
  /\ mem = [a \in Area |-> [o \in Offset |-> 0]]
  /\ locked = {}
  /\ cpu = "stop"
  /\ clock \in Clock
  /\ callbacks = [k \in Kinds |-> <<>>]
  /\ subscribed = [k \in Kinds |-> {}]
  /\ call = [t \in Thread |-> None]

-----------------------------------------------------------------------------
(* Data access                                                             *)

\* The bytes read_area returns for the offsets os, all under one lock.
Snapshot(a, os) == [o \in os |-> mem[a][o]]

\* read_area: the snapshot is taken, fire_read comes next.
ReadArea(t) ==
  /\ Free(t)
  /\ call' = [call EXCEPT ![t] = Fire("read")]
  /\ UNCHANGED <<mem, locked, cpu, clock, callbacks, subscribed>>

\* Mutant: the loop over the data stops one byte early.
WriteAreaShort(t, a, data) ==
  /\ Free(t)
  /\ mem' = [mem EXCEPT ![a] = [o \in Offset |->
                IF o \in DOMAIN data /\ o + 1 \in DOMAIN data THEN data[o] ELSE @[o]]]
  /\ call' = [call EXCEPT ![t] = Fire("write")]
  /\ UNCHANGED <<locked, cpu, clock, callbacks, subscribed>>

\* Mutant: locked_areas is not consulted.
WriteAreaUnchecked(t, a, data) ==
  /\ Free(t)
  /\ mem' = [mem EXCEPT ![a] = [o \in Offset |-> IF o \in DOMAIN data THEN data[o] ELSE @[o]]]
  /\ call' = [call EXCEPT ![t] = Fire("write")]
  /\ UNCHANGED <<locked, cpu, clock, callbacks, subscribed>>

\* write_area: a locked area is left alone and no callback fires.
WriteArea(t, a, data) ==
  /\ Free(t)
  /\ IF a \in locked
     THEN UNCHANGED <<mem, call>>
     ELSE /\ mem' = [mem EXCEPT ![a] =
                       [o \in Offset |-> IF o \in DOMAIN data THEN data[o] ELSE @[o]]]
          /\ call' = [call EXCEPT ![t] = Fire("write")]
  /\ UNCHANGED <<locked, cpu, clock, callbacks, subscribed>>

-----------------------------------------------------------------------------
(* fire_read, fire_write, fire_event                                       *)

\* mem::take under the lock.
TakeCallbacks(t) ==
  /\ ~Free(t) /\ call[t].stage = "take"
  /\ call' = [call EXCEPT ![t] = [@ EXCEPT !.stage = "restore", !.taken = callbacks[call[t].kind]]]
  /\ callbacks' = [callbacks EXCEPT ![call[t].kind] = <<>>]
  /\ UNCHANGED <<mem, locked, cpu, clock, subscribed>>

\* The callbacks have run without the lock; the list that was taken replaces
\* whatever the store holds by now.
RestoreCallbacks(t) ==
  /\ ~Free(t) /\ call[t].stage = "restore"
  /\ callbacks' = [callbacks EXCEPT ![call[t].kind] = call[t].taken]
  /\ call' = [call EXCEPT ![t] = None]
  /\ UNCHANGED <<mem, locked, cpu, clock, subscribed>>

\* on_read, on_write, on_event; each callback is registered once.
Subscribe(t, k, cb) ==
  /\ Free(t)
  /\ \A j \in Kinds : cb \notin subscribed[j]
  /\ callbacks' = [callbacks EXCEPT ![k] = Append(@, cb)]
  /\ subscribed' = [subscribed EXCEPT ![k] = @ \cup {cb}]
  /\ UNCHANGED <<mem, locked, cpu, clock, call>>

-----------------------------------------------------------------------------
(* The management interface                                                *)

\* set_cpu_state: the state changes under the lock, fire_event comes next.
SetCpuState(t, s) ==
  /\ Free(t)
  /\ cpu' = s
  /\ call' = [call EXCEPT ![t] = Fire("event")]
  /\ UNCHANGED <<mem, locked, clock, callbacks, subscribed>>

LockArea(t, a) ==
  /\ Free(t)
  /\ locked' = locked \cup {a}
  /\ UNCHANGED <<mem, cpu, clock, callbacks, subscribed, call>>

UnlockArea(t, a) ==
  /\ Free(t)
  /\ locked' = locked \ {a}
  /\ UNCHANGED <<mem, cpu, clock, callbacks, subscribed, call>>

\* unregister_area purges the bytes, of a locked area too.  (The map of size
\* hints that it and register_area keep is read by no access and left out.)
UnregisterArea(t, a) ==
  /\ Free(t)
  /\ mem' = [mem EXCEPT ![a] = [o \in Offset |-> 0]]
  /\ UNCHANGED <<locked, cpu, clock, callbacks, subscribed, call>>

SetClock(t, c) ==
  /\ Free(t)
  /\ clock' = c
  /\ UNCHANGED <<mem, locked, cpu, callbacks, subscribed, call>>

\* What the application does to a store that bears on requests in progress.
Configure(t) ==
  \/ \E k \in Kinds, cb \in Callback : Subscribe(t, k, cb)
  \/ \E a \in Area : LockArea(t, a) \/ UnlockArea(t, a) \/ UnregisterArea(t, a)

\* All that threads that use the store directly may do.
UseStore(t) ==
  \/ Configure(t)
  \/ ReadArea(t)
  \/ \E a \in Area, v \in Byte : WriteArea(t, a, [o \in Offset |-> v])
  \/ \E s \in {"run", "stop"} : SetCpuState(t, s)
  \/ TakeCallbacks(t)
  \/ RestoreCallbacks(t)
  \/ \E c \in Clock : SetClock(t, c)

StoreSpec == StoreInit /\ [][\E t \in Thread : UseStore(t)]_storeVars

-----------------------------------------------------------------------------
(* Properties                                                              *)

\* "Register a callback fired on every data write" (and read): a callback
\* that was registered is still there when no call is in progress, so that
\* the next write fires it.
CallbacksSurvive ==
  (\A t \in Thread : Free(t)) =>
    \A k \in Kinds : \A cb \in subscribed[k] :
      \E i \in 1..Len(callbacks[k]) : callbacks[k][i] = cb
=============================================================================
