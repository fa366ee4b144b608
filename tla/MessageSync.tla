---------------------------- MODULE MessageSync ----------------------------
(***************************************************************************)
(* The message-synchronisation core of the PRISM web client               *)
(* (src/prism/client/web/static/assets/index.69a4cb18.js, a one-line      *)
(* minified Svelte bundle; names below are the bundle's identifiers):      *)
(*                                                                         *)
(*   at        resilient fetch: retry forever until fetch() succeeds       *)
(*   tn        the poller, run by setInterval(tn, 250); overlapping ticks  *)
(*   de, Ue    the message log store and the seen-nonce set                *)
(*   Ne, ft    the contacts store and addContact                           *)
(*   ae        the active-conversation store                               *)
(*   Se        the read map: a nonce is added when its message component   *)
(*             (un) mounts; Wt/Xt derive the unread counts from it         *)
(*   dn        the conversation component: a() on mount, h() on submit    *)
(*                                                                         *)
(* The server is the environment: it appends messages from other people   *)
(* and the messages the client POSTs to /send.  A message's nonce is its   *)
(* position in the server log, which is how "since" orders them.  The      *)
(* field sid is a history field naming the submit that produced a message. *)
(***************************************************************************)
EXTENDS Integers, Sequences, FiniteSets, SequencesExt

CONSTANTS
  Self,          \* the local identity ue, fetched once from /persona
  Others,        \* the other people
  InitContacts,  \* the ordered contact list returned by /contacts
  PollSlots,     \* ids of poll invocations that may be in flight together
  SendSlots,     \* ids of submits; each is used at most once
  MaxMsgs,       \* bound on the length of the server log
  MaxFails,      \* bound on consecutive failed attempts of one request
  NoContact,     \* the initial value null of ae
  Home,          \* the "/" route: no conversation component mounted
  NoSend         \* sid of a message that no local submit produced

People == {Self} \cup Others
Nonce  == 1..MaxMsgs
Msg    == [nonce: Nonce, sender: People, receiver: People,
           sid: SendSlots \cup {NoSend}]

VARIABLES
  srvLog,    \* the server's message history
  log,       \* de: the local message log
  seen,      \* Ue: nonces ever merged into de
  contacts,  \* Ne
  active,    \* ae
  read,      \* Se (as the set of its keys)
  view,      \* the mounted route: Home or the contact of the dn component
  draft,     \* i of the mounted dn component is non-empty
  polls,     \* state of each invocation of tn
  sends      \* state of each invocation of h

vars == <<srvLog, log, seen, contacts, active, read, view, draft, polls, sends>>

-----------------------------------------------------------------------------
(* Helpers *)

\* Fault: the cursor points one past the last merged message.
CursorPastLast == IF log = <<>> THEN 0 ELSE Last(log).nonce + 1

\* Zt: the nonce of the last message of de, 0 standing for undefined.
Cursor == IF log = <<>> THEN 0 ELSE Last(log).nonce

\* GET /messages[?since=c]: the messages strictly after c in server order.
MessagesSince(c) == SubSeq(srvLog, c + 1, Len(srvLog))

\* ft: reject the empty name and the own identity, append if absent.
ValidContact(name) == name /= Self
AddContact(cs, name) ==
  IF ValidContact(name) /\ name \notin ToSet(cs) THEN Append(cs, name) ELSE cs

\* en: the messages of log l exchanged with contact c, in log order.
Transcript(l, c) == SelectSeq(l, LAMBDA m : m.sender = c \/ m.receiver = c)
TranscriptNonces(l, c) == {m.nonce : m \in ToSet(Transcript(l, c))}

\* The Svelte flush that follows a change of de or ae (a microtask, so no
\* other event comes between): a mounted dn renders en for ae, and every
\* newly mounted message component (un) adds its nonce to Se.
Shown(l, a, v) == IF v = Home THEN {} ELSE TranscriptNonces(l, a)

\* Xt: per contact, the messages from it whose nonce is not in Se.
Unread(c) == Cardinality({i \in DOMAIN log : log[i].sender = c /\ log[i].nonce \notin read})

Counterparty(m) == IF m.sender = Self THEN m.receiver ELSE m.sender

\* Appending a message to the server log, as the server does on POST /send.
Post(to, s) ==
  /\ Len(srvLog) < MaxMsgs
  /\ srvLog' = Append(srvLog, [nonce |-> Len(srvLog) + 1, sender |-> Self,
                               receiver |-> to, sid |-> s])

-----------------------------------------------------------------------------
Init ==
  /\ srvLog = <<>>
  /\ log = <<>>
  /\ seen = {}
  /\ contacts = InitContacts
  /\ active = NoContact
  /\ read = {}
  /\ view = Home
  /\ draft = FALSE
  /\ polls = [p \in PollSlots |-> [pc |-> "idle", cursor |-> 0, resp |-> <<>>, fails |-> 0]]
  /\ sends = [s \in SendSlots |-> [pc |-> "unused", to |-> NoContact, live |-> FALSE, fails |-> 0]]

(* The environment: another person's message reaches the server. *)
Deliver(o) ==
  /\ Len(srvLog) < MaxMsgs
  /\ srvLog' = Append(srvLog, [nonce |-> Len(srvLog) + 1, sender |-> o,
                               receiver |-> Self, sid |-> NoSend])
  /\ UNCHANGED <<log, seen, contacts, active, read, view, draft, polls, sends>>

(* tn, up to the await: read the cursor ht(Zt) and start at("/messages").  *)
(* setInterval does not wait for earlier invocations.                      *)
Tick(p) ==
  /\ polls[p].pc = "idle"
  /\ polls' = [polls EXCEPT ![p] = [pc |-> "fetch", cursor |-> Cursor, resp |-> <<>>, fails |-> 0]]
  /\ UNCHANGED <<srvLog, log, seen, contacts, active, read, view, draft, sends>>

(* at: fetch threw or the response was not ok; wait and double the delay. *)
PollFail(p) ==
  /\ polls[p].pc = "fetch"
  /\ polls[p].fails < MaxFails
  /\ polls' = [polls EXCEPT ![p].fails = @ + 1]
  /\ UNCHANGED <<srvLog, log, seen, contacts, active, read, view, draft, sends>>

(* at: the response is ok; the body read by s.json() is the server's      *)
(* answer at the time of this attempt.                                    *)
PollRespond(p) ==
  /\ polls[p].pc = "fetch"
  /\ polls' = [polls EXCEPT ![p].pc = "json", ![p].resp = MessagesSince(polls[p].cursor)]
  /\ UNCHANGED <<srvLog, log, seen, contacts, active, read, view, draft, sends>>

(* Fault: tn trusts the cursor it read before the await instead of Ue. *)
PollMergeByCursor(p) ==
  LET fresh == SelectSeq(polls[p].resp, LAMBDA m : m.nonce > polls[p].cursor)
  IN /\ polls[p].pc = "json"
     /\ seen' = seen \cup {m.nonce : m \in ToSet(fresh)}
     /\ log' = log \o fresh
     /\ polls' = [polls EXCEPT ![p].pc = "idle"]
     /\ read' = read \cup Shown(log', active, view)
     /\ UNCHANGED <<srvLog, contacts, active, view, draft, sends>>

(* Fault: the new messages are pushed into the array held by de without  *)
(* a set, so no subscriber is notified and nothing is rendered.           *)
PollMergeInPlace(p) ==
  LET fresh == SelectSeq(polls[p].resp, LAMBDA m : m.nonce \notin seen)
  IN /\ polls[p].pc = "json"
     /\ seen' = seen \cup {m.nonce : m \in ToSet(fresh)}
     /\ log' = log \o fresh
     /\ polls' = [polls EXCEPT ![p].pc = "idle"]
     /\ UNCHANGED <<srvLog, contacts, active, view, draft, sends, read>>

(* tn after the await: drop seen nonces, record the rest, append them to  *)
(* de in one update.                                                      *)
PollMerge(p) ==
  LET fresh == SelectSeq(polls[p].resp, LAMBDA m : m.nonce \notin seen)
  IN /\ polls[p].pc = "json"
     /\ seen' = seen \cup {m.nonce : m \in ToSet(fresh)}
     /\ log' = log \o fresh
     /\ polls' = [polls EXCEPT ![p].pc = "idle"]
     /\ read' = read \cup Shown(log', active, view)
     /\ UNCHANGED <<srvLog, contacts, active, view, draft, sends>>

(* Navigation to /conversations/c, by a contact link or by the add-contact *)
(* form (whose ft(c) precedes the navigation).  A new dn component is      *)
(* created: its message children are built from en, which still filters by *)
(* the old ae, and their onMount (un's h) runs before the parent's a(),    *)
(* which calls ft(c) and sets ae; the flush then mounts c's transcript.    *)
Open(c) ==
  /\ view /= c
  /\ read' = read \cup TranscriptNonces(log, active) \cup TranscriptNonces(log, c)
  /\ contacts' = AddContact(contacts, c)
  /\ active' = c
  /\ view' = c
  /\ draft' = FALSE
  /\ sends' = [s \in SendSlots |-> [sends[s] EXCEPT !.live = FALSE]]
  /\ UNCHANGED <<srvLog, log, seen, polls>>

(* The Help link to "/": the dn component is destroyed; ae is not reset. *)
GoHome ==
  /\ view /= Home
  /\ view' = Home
  /\ draft' = FALSE
  /\ sends' = [s \in SendSlots |-> [sends[s] EXCEPT !.live = FALSE]]
  /\ UNCHANGED <<srvLog, log, seen, contacts, active, read, polls>>

(* The user types into the message input of the mounted dn. *)
Type ==
  /\ view /= Home
  /\ draft' = TRUE
  /\ UNCHANGED <<srvLog, log, seen, contacts, active, read, view, polls, sends>>

(* h, up to the await: a non-empty input starts Vt("/send", ...); the     *)
(* input is only cleared after the await.                                 *)
Submit(s) ==
  /\ view /= Home
  /\ draft
  /\ sends[s].pc = "unused"
  /\ sends' = [sends EXCEPT ![s] = [pc |-> "fetch", to |-> view, live |-> TRUE, fails |-> 0]]
  /\ UNCHANGED <<srvLog, log, seen, contacts, active, read, view, draft, polls>>

(* at for POST /send: the request never reached the server. *)
SendLost(s) ==
  /\ sends[s].pc = "fetch"
  /\ sends[s].fails < MaxFails
  /\ sends' = [sends EXCEPT ![s].fails = @ + 1]
  /\ UNCHANGED <<srvLog, log, seen, contacts, active, read, view, draft, polls>>

(* at for POST /send: the server stored the message but the response was  *)
(* lost or not ok, so at retries the POST.                                *)
SendUnacked(s) ==
  /\ sends[s].pc = "fetch"
  /\ sends[s].fails < MaxFails
  /\ Post(sends[s].to, s)
  /\ sends' = [sends EXCEPT ![s].fails = @ + 1]
  /\ UNCHANGED <<log, seen, contacts, active, read, view, draft, polls>>

(* at for POST /send: stored and acknowledged. *)
SendAcked(s) ==
  /\ sends[s].pc = "fetch"
  /\ Post(sends[s].to, s)
  /\ sends' = [sends EXCEPT ![s].pc = "json"]
  /\ UNCHANGED <<log, seen, contacts, active, read, view, draft, polls>>

(* h after the await: clear the input and call a(), i.e. ft(r) and        *)
(* ae := r, with the r of the component that submitted, even when that   *)
(* component has been destroyed meanwhile (c.focus() then throws, after   *)
(* ae is set).                                                            *)
SendDone(s) ==
  /\ sends[s].pc = "json"
  /\ sends' = [sends EXCEPT ![s].pc = "done"]
  /\ draft' = IF sends[s].live THEN FALSE ELSE draft
  /\ contacts' = AddContact(contacts, sends[s].to)
  /\ active' = sends[s].to
  /\ read' = read \cup Shown(log, active', view)
  /\ UNCHANGED <<srvLog, log, seen, view, polls>>

Next ==
  \/ \E o \in Others : Deliver(o)
  \/ \E p \in PollSlots : Tick(p) \/ PollFail(p) \/ PollRespond(p) \/ PollMerge(p)
  \/ \E c \in Others : Open(c)
  \/ GoHome
  \/ Type
  \/ \E s \in SendSlots : Submit(s) \/ SendLost(s) \/ SendUnacked(s) \/ SendAcked(s) \/ SendDone(s)

(* The interval timer, the network once reachable and promise            *)
(* continuations always make progress; the user and the other people     *)
(* need not act.                                                          *)
Fairness ==
  /\ \A p \in PollSlots : WF_vars(Tick(p)) /\ WF_vars(PollRespond(p)) /\ WF_vars(PollMerge(p))
  /\ \A s \in SendSlots : WF_vars(SendAcked(s)) /\ WF_vars(SendDone(s))

Spec == Init /\ [][Next]_vars /\ Fairness

-----------------------------------------------------------------------------
TypeOK ==
  /\ srvLog \in Seq(Msg) /\ log \in Seq(Msg)
  /\ seen \subseteq Nonce /\ read \subseteq Nonce
  /\ contacts \in Seq(Others)
  /\ active \in People \cup {NoContact}
  /\ view \in Others \cup {Home}
  /\ draft \in BOOLEAN
  /\ polls \in [PollSlots -> [pc: {"idle", "fetch", "json"}, cursor: 0..MaxMsgs,
                              resp: Seq(Msg), fails: 0..MaxFails]]
  /\ sends \in [SendSlots -> [pc: {"unused", "fetch", "json", "done"},
                              to: Others \cup {NoContact}, live: BOOLEAN, fails: 0..MaxFails]]

(* Overlapping poll invocations (tn is not serialised), each with the      *)
(* cursor it read before its await and the answer of its own attempt, only *)
(* ever extend de with the server's next messages: de is always a prefix   *)
(* of the server log, so nothing is duplicated, skipped or reordered.      *)
LogIsServerPrefix == IsPrefix(log, srvLog)

(* The refinement: the client log is a prefix of the server log that only *)
(* grows, and eventually catches up with the server.                       *)
Abs == INSTANCE SyncAbstract WITH srv <- srvLog, log <- log
Refinement == Abs!Spec

(* While a conversation is displayed, ae names its contact, so the        *)
(* transcript shown (en) and the messages marked read are that contact's.  *)
ActiveIsViewed == view /= Home => active = view

(* A message is marked read (added to Se) only when the conversation with *)
(* its counterparty is the one displayed after the step.                   *)
ReadOnlyWhenShown ==
  [][\A i \in DOMAIN log : log[i].nonce \in read' \ read => Counterparty(log[i]) = view']_read

\* The displayed conversation, with ae naming it, has a message on the
\* server that is not marked read.
DisplayedUnread ==
  /\ view /= Home
  /\ active = view
  /\ \E i \in DOMAIN srvLog : srvLog[i].sender = view /\ srvLog[i].nonce \notin read

(* Spec 4.4/4.6: while a conversation is displayed with ae naming it, every *)
(* message its contact sent to the server is eventually rendered and      *)
(* marked read (or the user leaves first), through overlapping polls,     *)
(* failed attempts and stale cursors.                                      *)
ReadWhileDisplayed == DisplayedUnread ~> ~DisplayedUnread

(* Spec 4.4 step 4: the counterparty of every merged message is a contact. *)
CounterpartiesAreContacts ==
  \A i \in DOMAIN log : Counterparty(log[i]) \in ToSet(contacts)
=============================================================================
