------------------------------ MODULE Backoff ------------------------------
(***************************************************************************)
(* The retry delay of the resilient fetch at() in                          *)
(* src/prism/client/web/static/assets/index.69a4cb18.js:                   *)
(*                                                                         *)
(*   function Qt(t){return new Promise(e=>setTimeout(e,t))}                *)
(*   function xt(t,e=1e3){let n=t;return async function(){await Qt(n),n*=2}}*)
(*   async function at(t,e={}){const n=xt(100);...for(;;){try{s=await       *)
(*     fetch(t,e)}catch{}if(s&&s.ok)return await s.json();await n()}}      *)
(*                                                                         *)
(* Every call of at() has its own delay n, starting at 100 ms and doubled *)
(* after each wait, without a cap (the cap parameter e of xt is unused).   *)
(* n is a JavaScript number, exact at these magnitudes, but setTimeout     *)
(* takes its delay as a WebIDL long: the value is reduced modulo 2^32 and  *)
(* read as a signed 32-bit integer, and a negative delay becomes 0.  Some  *)
(* engines instead fire at once whenever the delay exceeds 2^31 - 1.       *)
(*                                                                         *)
(* TLC integers are 32-bit, so n is kept as the low 32 bits of its value,  *)
(* in two 16-bit halves, together with the flag big, "n >= 2^31".          *)
(***************************************************************************)
EXTENDS Integers

CONSTANTS
  Calls,     \* concurrent invocations of at() (the poller's, a send's)
  Base,      \* the initial delay given to xt: 100
  MaxFails   \* bound on consecutive failed attempts of one call

Half == 65536           \* 2^16
Int32Max == 2147483647  \* 2^31 - 1

\* A delay value below 2^31 in the representation.
Rep(v) == [hi |-> v \div Half, lo |-> v % Half, big |-> FALSE]

\* The delay's value, meaningful while big is FALSE.
Value(d) == d.hi * Half + d.lo

\* Fault: the doubling loses the carry from the low half.
DoubleNoCarry(d) ==
  [hi |-> (2 * d.hi) % Half, lo |-> (2 * d.lo) % Half,
   big |-> d.big \/ d.hi >= Half \div 4]

\* n *= 2: the low 32 bits shift left; n reaches 2^31 once it was >= 2^30.
Double(d) ==
  [hi |-> (2 * d.hi + (2 * d.lo) \div Half) % Half,
   lo |-> (2 * d.lo) % Half,
   big |-> d.big \/ d.hi >= Half \div 4]

\* Fault: the signed 32-bit delay is used without turning negatives into 0.
TimerDelaysNoClamp(d) ==
  LET int32 == IF d.hi >= Half \div 2 THEN (d.hi - Half) * Half + d.lo ELSE Value(d)
  IN {int32} \cup (IF d.big THEN {0} ELSE {})

\* setTimeout(e, n): the delays the timer may actually wait.
TimerDelays(d) ==
  LET int32 == IF d.hi >= Half \div 2 THEN 0 ELSE Value(d)
  IN {int32} \cup (IF d.big THEN {0} ELSE {})

\* Reference: the delay after k doublings of v, for checking Double.
RECURSIVE Doubled(_, _)
Doubled(v, k) == IF k = 0 THEN v ELSE Doubled(2 * v, k - 1)

VARIABLES
  fails,   \* failed attempts of the current call of at()
  n,       \* its delay n
  waited   \* the delay the timer waited after the last failure, -1 if none

vars == <<fails, n, waited>>

Init ==
  /\ fails = [c \in Calls |-> 0]
  /\ n = [c \in Calls |-> Rep(Base)]
  /\ waited = [c \in Calls |-> -1]

(* fetch threw or was not ok: await n() waits Qt(n) and then doubles n. *)
Fail(c) ==
  /\ fails[c] < MaxFails
  /\ fails' = [fails EXCEPT ![c] = @ + 1]
  /\ \E w \in TimerDelays(n[c]) : waited' = [waited EXCEPT ![c] = w]
  /\ n' = [n EXCEPT ![c] = Double(@)]

(* The attempt succeeded and at() returned; the caller's next at() starts *)
(* with a fresh xt(100).                                                  *)
Succeed(c) ==
  /\ fails' = [fails EXCEPT ![c] = 0]
  /\ n' = [n EXCEPT ![c] = Rep(Base)]
  /\ waited' = [waited EXCEPT ![c] = -1]

Next == \E c \in Calls : Fail(c) \/ Succeed(c)

Spec == Init /\ [][Next]_vars

-----------------------------------------------------------------------------
TypeOK ==
  /\ fails \in [Calls -> 0..MaxFails]
  /\ n \in [Calls -> [hi: 0..Half - 1, lo: 0..Half - 1, big: BOOLEAN]]
  /\ waited \in [Calls -> -1..Int32Max]

(* Spec 8: after k consecutive failures of a call, n is Base doubled k    *)
(* times (checked while n is below 2^31), whatever the other calls do.     *)
DelayDoubles ==
  \A c \in Calls : ~n[c].big => Value(n[c]) = Doubled(Base, fails[c])

(* Spec 4.1: the wait between attempts grows without bound: a failure     *)
(* never waits less than the failure before it in the same call.           *)
WaitNeverShrinks ==
  [][\A c \in Calls : fails'[c] = fails[c] + 1 => waited'[c] >= waited[c]]_vars
=============================================================================
