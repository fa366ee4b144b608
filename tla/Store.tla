------------------------------- MODULE Store -------------------------------
(***************************************************************************)
(* The store engine of src/prism/client/web/static/assets/index.69a4cb18.js *)
(* (Svelte's svelte/store, minified):                                      *)
(*                                                                         *)
(*   z(t,e)   writable: value t, subscriber Set s of [run, invalidate]     *)
(*            pairs, stop handle n.  set(c): if H(t,c) then t=c and, if     *)
(*            started, invalidate every subscriber and push [sub, t] on    *)
(*            the global queue Y; the set that found Y empty drains it.    *)
(*            subscribe: add, start on the first subscriber, run(t).       *)
(*            unsubscribe: delete, stop on the last.                       *)
(*   te(t,e)  derived: its start subscribes to every source in order with  *)
(*            run = (l[f]=d, clear pending bit f, if inited: a()) and      *)
(*            invalidate = (set pending bit f); then inited=true and a().  *)
(*            a(): if any bit is pending return; else set(e(l)).           *)
(*            Its stop unsubscribes from every source.                    *)
(*   H        safe_not_equal: NaN equals NaN, objects always differ.       *)
(*   je, A    subscribe helper; a component subscribes at creation (A)    *)
(*            and its destroy runs the unsubscribers in the same order.    *)
(*   ht       get: subscribe and at once unsubscribe.                     *)
(*                                                                         *)
(* A derived value is the tuple of the inputs it was computed from, so a   *)
(* value computed from stale inputs differs from the reference value Ref.  *)
(* Values are model values or tuples; NaN, if one of them, equals itself   *)
(* under TLA+ equality exactly as under H.                                 *)
(***************************************************************************)
EXTENDS Integers, Sequences, FiniteSets, SequencesExt

CONSTANTS
  Writables,     \* stores made by z
  Derived,       \* stores made by te
  Deps,          \* Deps[d]: the source stores of d, in the order given to te
  ObjectStores,  \* stores whose values are objects: H always reports a change
  ReSettable,    \* writables the code may set to the very value they hold
  Vals,          \* values a writable may be set to
  InitVal,       \* InitVal[w]: the initial value of writable w
  Comps,         \* components (and ht calls) that subscribe to stores
  CompStores,    \* CompStores[c]: the stores c subscribes to, in order
  Permanent,     \* components mounted from start to end of the session
  Getters,       \* ht(store) calls: subscribe and at once unsubscribe
  NoValue        \* undefined: a derived store's value before its first start

Stores == Writables \cup Derived

DrvEntry(d, i)  == [kind |-> "drv", node |-> d, idx |-> i]
CompEntry(c, i) == [kind |-> "comp", node |-> c, idx |-> i]
Entry == {DrvEntry(d, i) : d \in Derived, i \in 1..3} \cup {CompEntry(c, i) : c \in Comps, i \in 1..3}

VARIABLES
  val,       \* t of every store
  subs,      \* s of every store: its subscriber entries in insertion order
  started,   \* n /= null: the store has been started and not stopped
  inited,    \* c of a derived store's start closure
  pending,   \* u of a derived store: indices of sources with a pending bit
  inputs,    \* l of a derived store: the last value run gave for each source
  queue,     \* Y: [entry, value] pairs still to be run
  got,       \* got[c][i]: the last value delivered to component c's i-th subscription
  mounted,   \* the components currently subscribed
  computes,  \* history: computations of each derived store since the flush began
  glitches   \* history: derived stores that computed from inputs other than Ref

vars == <<val, subs, started, inited, pending, inputs, queue, got, mounted, computes, glitches>>

Eng == [val |-> val, subs |-> subs, started |-> started, inited |-> inited,
        pending |-> pending, inputs |-> inputs, queue |-> queue, got |-> got,
        computes |-> computes, glitches |-> glitches]

Apply(r) ==
  /\ val' = r.val /\ subs' = r.subs /\ started' = r.started /\ inited' = r.inited
  /\ pending' = r.pending /\ inputs' = r.inputs /\ queue' = r.queue /\ got' = r.got
  /\ computes' = r.computes /\ glitches' = r.glitches

-----------------------------------------------------------------------------
(* The reference value of a store: its value recomputed from the current  *)
(* writable values through the whole graph.                               *)
RECURSIVE Ref(_, _)
Ref(r, s) ==
  IF s \in Writables THEN r.val[s]
  ELSE [i \in DOMAIN Deps[s] |-> Ref(r, Deps[s][i])]

\* H(t, e): the new value counts as a change.
Changed(s, old, new) == old /= new \/ s \in ObjectStores

\* Fault: the pending bit set is that of the next source (1 << f+1).
NotifyBitOffByOne(r, s, v) ==
  LET es == r.subs[s]
  IN [r EXCEPT
        !.pending = [d \in Derived |->
                       @[d] \cup {es[k].idx + 1 : k \in {k \in DOMAIN es : es[k].kind = "drv" /\ es[k].node = d}}],
        !.queue = @ \o [k \in DOMAIN es |-> [e |-> es[k], v |-> v]]]

\* set(c) of store s, after H: queue every subscriber after invalidating it.
Notify(r, s, v) ==
  LET es == r.subs[s]
  IN [r EXCEPT
        !.pending = [d \in Derived |->
                       @[d] \cup {es[k].idx : k \in {k \in DOMAIN es : es[k].kind = "drv" /\ es[k].node = d}}],
        !.queue = @ \o [k \in DOMAIN es |-> [e |-> es[k], v |-> v]]]

\* Fault: the subscribers are queued with the value the store held before.
SetStoreQueueOld(r, s, v) ==
  IF ~Changed(s, r.val[s], v) THEN r
  ELSE LET r1 == [r EXCEPT !.val[s] = v]
       IN IF r.started[s] THEN Notify(r1, s, r.val[s]) ELSE r1

SetStore(r, s, v) ==
  IF ~Changed(s, r.val[s], v) THEN r
  ELSE LET r1 == [r EXCEPT !.val[s] = v]
       IN IF r.started[s] THEN Notify(r1, s, v) ELSE r1

\* a() of derived d once no bit is pending: set(e(l)).
Compute(r, d) ==
  LET r1 == [r EXCEPT !.computes[d] = @ + 1,
                      !.glitches = IF r.inputs[d] = Ref(r, d) THEN @ ELSE @ \cup {d}]
  IN SetStore(r1, d, r.inputs[d])

\* Fault: run calls a() without its "if(u) return" test.
RunIgnoringPending(r, e, v) ==
  IF e.kind = "comp" THEN [r EXCEPT !.got[e.node][e.idx] = v]
  ELSE LET d == e.node
           r1 == [r EXCEPT !.inputs[d][e.idx] = v, !.pending[d] = @ \ {e.idx}]
       IN IF r1.inited[d] THEN Compute(r1, d) ELSE r1

\* The run callback of entry e with value v.
Run(r, e, v) ==
  IF e.kind = "comp" THEN [r EXCEPT !.got[e.node][e.idx] = v]
  ELSE LET d == e.node
           r1 == [r EXCEPT !.inputs[d][e.idx] = v, !.pending[d] = @ \ {e.idx}]
       IN IF r1.inited[d] /\ r1.pending[d] = {} THEN Compute(r1, d) ELSE r1

RECURSIVE Subscribe(_, _, _), Unsubscribe(_, _, _), SubDeps(_, _, _), UnsubDeps(_, _, _)

\* Fault: the closure is marked inited (c = true) before its sources are
\* subscribed, so each source's first run already calls a().
StartEarly(r, s) ==
  IF s \in Writables THEN [r EXCEPT !.started[s] = TRUE]
  ELSE LET r1 == [r EXCEPT !.inputs[s] = [i \in DOMAIN Deps[s] |-> NoValue],
                           !.pending[s] = {}, !.inited[s] = TRUE]
       IN [Compute(SubDeps(r1, s, 1), s) EXCEPT !.started[s] = TRUE]

\* start of store s (n = e(o)); for a derived store, a fresh closure that
\* subscribes to every source in order, then inited = true and a().
\* n is assigned only after start returns, so the set made by a() does not
\* notify.
Start(r, s) ==
  IF s \in Writables THEN [r EXCEPT !.started[s] = TRUE]
  ELSE LET r1 == [r EXCEPT !.inputs[s] = [i \in DOMAIN Deps[s] |-> NoValue],
                           !.pending[s] = {}, !.inited[s] = FALSE]
           r2 == [SubDeps(r1, s, 1) EXCEPT !.inited[s] = TRUE]
       IN [Compute(r2, s) EXCEPT !.started[s] = TRUE]

\* subscribe(run, invalidate): add the entry, start on the first, run(t).
Subscribe(r, s, e) ==
  LET r1 == [r EXCEPT !.subs[s] = Append(@, e)]
      r2 == IF r.subs[s] = <<>> THEN Start(r1, s) ELSE r1
  IN Run(r2, e, r2.val[s])

SubDeps(r, d, i) ==
  IF i > Len(Deps[d]) THEN r ELSE SubDeps(Subscribe(r, Deps[d][i], DrvEntry(d, i)), d, i + 1)

\* The unsubscriber: delete the entry, stop on the last; a derived store's
\* stop unsubscribes from its sources in order.
Unsubscribe(r, s, e) ==
  LET r1 == [r EXCEPT !.subs[s] = SelectSeq(@, LAMBDA x : x /= e)]
  IN IF r1.subs[s] /= <<>> THEN r1
     ELSE IF s \in Writables THEN [r1 EXCEPT !.started[s] = FALSE]
     ELSE UnsubDeps([r1 EXCEPT !.started[s] = FALSE], s, 1)

UnsubDeps(r, d, i) ==
  IF i > Len(Deps[d]) THEN r ELSE UnsubDeps(Unsubscribe(r, Deps[d][i], DrvEntry(d, i)), d, i + 1)

\* A component's creation and destruction: its subscriptions in order.
RECURSIVE MountFrom(_, _, _), UnmountFrom(_, _, _)
MountFrom(r, c, i) ==
  IF i > Len(CompStores[c]) THEN r ELSE MountFrom(Subscribe(r, CompStores[c][i], CompEntry(c, i)), c, i + 1)
UnmountFrom(r, c, i) ==
  IF i > Len(CompStores[c]) THEN r ELSE UnmountFrom(Unsubscribe(r, CompStores[c][i], CompEntry(c, i)), c, i + 1)

\* The drain loop of the set that found Y empty, run to its end.
RECURSIVE DrainAll(_)
DrainAll(r) ==
  IF r.queue = <<>> THEN r
  ELSE DrainAll(Run([r EXCEPT !.queue = Tail(r.queue)], Head(r.queue).e, Head(r.queue).v))

\* A flush (nt) begins: a new count of computations.
Fresh(r) == [r EXCEPT !.computes = [d \in Derived |-> 0]]

-----------------------------------------------------------------------------
Empty ==
  [val |-> [s \in Stores |-> IF s \in Writables THEN InitVal[s] ELSE NoValue],
   subs |-> [s \in Stores |-> <<>>],
   started |-> [s \in Stores |-> FALSE],
   inited |-> [d \in Derived |-> FALSE],
   pending |-> [d \in Derived |-> {}],
   inputs |-> [d \in Derived |-> [i \in DOMAIN Deps[d] |-> NoValue]],
   queue |-> <<>>,
   got |-> [c \in Comps |-> [i \in DOMAIN CompStores[c] |-> NoValue]],
   computes |-> [d \in Derived |-> 0],
   glitches |-> {}]

RECURSIVE MountAll(_, _)
MountAll(r, cs) ==
  IF cs = {} THEN r
  ELSE LET c == CHOOSE c \in cs : TRUE IN MountAll(MountFrom(r, c, 1), cs \ {c})

Init ==
  /\ LET r == MountAll(Empty, Permanent)
     IN /\ val = r.val /\ subs = r.subs /\ started = r.started /\ inited = r.inited
        /\ pending = r.pending /\ inputs = r.inputs /\ queue = r.queue /\ got = r.got
        /\ computes = r.computes /\ glitches = r.glitches
  /\ mounted = Permanent

(* set or update called from outside the store engine, with Y empty. *)
ExtSet(w, v) ==
  /\ queue = <<>>
  /\ v /= val[w] \/ w \in ReSettable
  /\ Changed(w, val[w], v)
  /\ Apply(SetStore(Fresh(Eng), w, v))
  /\ UNCHANGED mounted

(* One iteration of the drain loop of the set that found Y empty. *)
Drain ==
  /\ queue /= <<>>
  /\ Apply(Run([Eng EXCEPT !.queue = Tail(queue)], Head(queue).e, Head(queue).v))
  /\ UNCHANGED mounted

(* A component is created. *)
Mount(c) ==
  /\ queue = <<>>
  /\ c \notin mounted \cup Getters
  /\ Apply(MountFrom(Fresh(Eng), c, 1))
  /\ mounted' = mounted \cup {c}

(* A component is destroyed. *)
Unmount(c) ==
  /\ queue = <<>>
  /\ c \in mounted \ Permanent
  /\ Apply(UnmountFrom(Fresh(Eng), c, 1))
  /\ mounted' = mounted \ {c}

(* ht(store): subscribe, take the value delivered at once, unsubscribe. *)
Get(c) ==
  /\ queue = <<>>
  /\ Apply(UnmountFrom(MountFrom(Fresh(Eng), c, 1), c, 1))
  /\ UNCHANGED mounted

Next ==
  \/ \E w \in Writables, v \in Vals : ExtSet(w, v)
  \/ Drain
  \/ \E c \in Comps \ Getters : Mount(c) \/ Unmount(c)
  \/ \E c \in Getters : Get(c)

Spec == Init /\ [][Next]_vars /\ WF_vars(Drain)

-----------------------------------------------------------------------------
TypeOK ==
  /\ DOMAIN val = Stores
  /\ \A w \in Writables : val[w] \in Vals
  /\ subs \in [Stores -> Seq(Entry)]
  /\ started \in [Stores -> BOOLEAN]
  /\ inited \in [Derived -> BOOLEAN]
  /\ \A d \in Derived : pending[d] \subseteq DOMAIN Deps[d]
  /\ \A k \in DOMAIN queue : queue[k].e \in Entry
  /\ mounted \subseteq Comps
  /\ computes \in [Derived -> Nat]
  /\ glitches \subseteq Derived

(* Spec 4.2: a derived store never computes from a mix of old and new     *)
(* source values: whenever a() calls e(l), l equals the sources' values    *)
(* recomputed from the current writables.                                  *)
NoGlitch == glitches = {}

(* Spec 8: a derived store's recomputation count never exceeds one per     *)
(* batched upstream flush, however many sources changed in that flush;     *)
(* computes counts the computations since the flush began (Fresh).         *)
RecomputeOnce == \A d \in Derived : computes[d] <= 1

(* Once the queue Y is drained, every started store holds its reference   *)
(* value and every mounted component has been given the value of each     *)
(* store it subscribes to, however subscriptions, stops and restarts       *)
(* interleaved with sets.                                                  *)
SettledConsistent ==
  queue = <<>> =>
    /\ \A s \in Stores : started[s] => val[s] = Ref(Eng, s)
    /\ \A c \in mounted : \A i \in DOMAIN CompStores[c] : got[c][i] = val[CompStores[c][i]]

=============================================================================
