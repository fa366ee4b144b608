----------------------------- MODULE SendForm -----------------------------
(***************************************************************************)
(* The message form of the conversation component dn in                   *)
(* src/prism/client/web/static/assets/index.69a4cb18.js, at the level of   *)
(* the text typed:                                                         *)
(*                                                                         *)
(*   function p(){ i = this.value, n(1, i) }            input binding      *)
(*   async function h(d){ i.length != 0 && (await Vt("/send",             *)
(*       {address: r, message: i}), n(1, i = ""), a()) }  submit handler   *)
(*                                                                         *)
(* h reads i when it starts and clears it when Vt returns; the form stays *)
(* enabled meanwhile.  Vt is at(): it retries until a response is ok, and *)
(* an attempt may store the message although its response is lost.        *)
(* Navigation destroys dn and creates a new one with i = "": a late       *)
(* n(1, i = "") writes into the destroyed instance only.                   *)
(* Each typing is a fresh text, so a text stored twice was sent twice.     *)
(***************************************************************************)
EXTENDS Naturals, Sequences

CONSTANTS
  Texts,      \* the texts the user may type, each at most once
  Empty,      \* ""
  SendSlots,  \* invocations of h
  MaxFails,   \* bound on consecutive failed attempts of one request
  MaxViews    \* bound on the dn instances created by navigation

VARIABLES
  input,   \* i of the current dn instance
  view,    \* the current dn instance
  typed,   \* the texts typed so far
  srv,     \* the messages the server stored: the text and the invocation of h
  sends    \* the state of each invocation of h

vars == <<input, view, typed, srv, sends>>

Init ==
  /\ input = Empty
  /\ view = 0
  /\ typed = {}
  /\ srv = <<>>
  /\ sends = [s \in SendSlots |-> [pc |-> "unused", text |-> Empty, inst |-> 0, fails |-> 0]]

(* p(): the user replaces the input with a new text. *)
Type(t) ==
  /\ t \notin typed
  /\ input' = t
  /\ typed' = typed \cup {t}
  /\ UNCHANGED <<view, srv, sends>>

(* h, up to the await: a non-empty i starts Vt("/send", {message: i}). *)
Submit(s) ==
  /\ input /= Empty
  /\ sends[s].pc = "unused"
  /\ sends' = [sends EXCEPT ![s] = [pc |-> "fetch", text |-> input, inst |-> view, fails |-> 0]]
  /\ UNCHANGED <<input, view, typed, srv>>

(* at: the POST never reached the server. *)
SendLost(s) ==
  /\ sends[s].pc = "fetch"
  /\ sends[s].fails < MaxFails
  /\ sends' = [sends EXCEPT ![s].fails = @ + 1]
  /\ UNCHANGED <<input, view, typed, srv>>

(* at: the server stored the message, the response was lost or not ok. *)
SendUnacked(s) ==
  /\ sends[s].pc = "fetch"
  /\ sends[s].fails < MaxFails
  /\ srv' = Append(srv, [text |-> sends[s].text, sid |-> s])
  /\ sends' = [sends EXCEPT ![s].fails = @ + 1]
  /\ UNCHANGED <<input, view, typed>>

(* at: stored and acknowledged; at returns. *)
SendAcked(s) ==
  /\ sends[s].pc = "fetch"
  /\ srv' = Append(srv, [text |-> sends[s].text, sid |-> s])
  /\ sends' = [sends EXCEPT ![s].pc = "json"]
  /\ UNCHANGED <<input, view, typed>>

(* h after the await: n(1, i = "") in the instance that submitted. *)
SendDone(s) ==
  /\ sends[s].pc = "json"
  /\ sends' = [sends EXCEPT ![s].pc = "done"]
  /\ input' = IF sends[s].inst = view THEN Empty ELSE input
  /\ UNCHANGED <<view, typed, srv>>

(* Navigation: dn is destroyed and a new instance starts with i = "". *)
Navigate ==
  /\ view < MaxViews
  /\ view' = view + 1
  /\ input' = Empty
  /\ UNCHANGED <<typed, srv, sends>>

Next ==
  \/ \E t \in Texts : Type(t)
  \/ Navigate
  \/ \E s \in SendSlots : Submit(s) \/ SendLost(s) \/ SendUnacked(s) \/ SendAcked(s) \/ SendDone(s)

(* The network is eventually reachable and promise continuations run. *)
Spec == Init /\ [][Next]_vars /\ \A s \in SendSlots : WF_vars(SendAcked(s)) /\ WF_vars(SendDone(s))

-----------------------------------------------------------------------------
(* The input is emptied, in the instance that stays displayed, only after *)
(* the text it held was stored: no typed text is thrown away unsent.       *)
ClearOnlyPosted ==
  [][input /= Empty /\ input' = Empty /\ view' = view
       => \E k \in DOMAIN srv' : srv'[k].text = input]_vars

(* Spec 1: no message is duplicated: a text typed once is stored on the  *)
(* server at most once, whether at() retries a POST or h() runs again.     *)
StoredOnce ==
  \A k, j \in DOMAIN srv : srv[k].text = srv[j].text => k = j
=============================================================================
