------------------------------ MODULE Router ------------------------------
(***************************************************************************)
(* Navigation to a conversation in                                         *)
(* src/prism/client/web/static/assets/index.69a4cb18.js (svelte-routing):  *)
(*                                                                         *)
(*   sn  c(u){ ft(i) && (rt(`/conversations/${i}`), n(0, i = "")) }       *)
(*   Be  <a href={"/conversations/" + name}> with ut: a click calls        *)
(*       rt(s.pathname + s.search)                                         *)
(*   Ot  navigate(o): history.pushState(r, null, o); the listeners get     *)
(*       window.location, and the Router's store d is set to it            *)
(*   Kt  $$.update: p.set(it(o, s.pathname)), the active route             *)
(*   it  rank the routes ($t, It), then match the path segment by segment, *)
(*       decoding a ":param" segment with decodeURIComponent               *)
(*   nt  the flush: kt sets me and queues nt; nt resets me at its end,     *)
(*       with no try/finally around the component updates                  *)
(*                                                                         *)
(* Text is a sequence of character codes, so that the URL parser, the      *)
(* splitting and decodeURIComponent are modelled by what they do.          *)
(***************************************************************************)
EXTENDS Integers, Sequences, SequencesExt, TLC

CONSTANTS
  Alphabet,  \* character codes a typed contact name may contain
  MaxLen,    \* bound on the length of a contact name
  Self,      \* ue, the own identity
  Routes,    \* the path props of the Route components, in registration order
  MaxHistory \* bound on the length of the session history

\* A byte of 0x80 or more can only be part of a multi-byte sequence of at
\* least six characters (%XX%XX), which a name this short cannot hold.
ASSUME MaxLen < 6
ASSUME \A k \in DOMAIN Routes : \A i \in DOMAIN Routes[k] : Routes[k][i] /= 42

Slash == 47  Qm == 63  Hash == 35  Pct == 37  Dot == 46  Space == 32
Colon == 58  Star == 42

Names == {n \in BoundedSeq(Alphabet, MaxLen) : n /= <<>>}

\* Character code of a hexadecimal digit, -1 for any other character.
HexVal(c) ==
  CASE c \in 48..57 -> c - 48 [] c \in 97..102 -> c - 87 [] c \in 65..70 -> c - 55 [] OTHER -> -1

Index(s, cs) == SelectInSeq(s, LAMBDA x : x \in cs)

\* s.split(c)
RECURSIVE Split(_, _)
Split(s, c) ==
  LET i == Index(s, {c})
  IN IF i = 0 THEN <<s>> ELSE <<SubSeq(s, 1, i - 1)>> \o Split(SubSeq(s, i + 1, Len(s)), c)

\* segs.join(c)
Join(segs, c) == FoldLeft(LAMBDA acc, x : IF acc = <<>> THEN x ELSE acc \o <<c>> \o x, <<>>, segs)

\* pe: t.replace(/(^\/+|\/+$)/g, "")
Trim(s) ==
  LET first == SelectInSeq(s, LAMBDA c : c /= Slash)
      last  == SelectLastInSeq(s, LAMBDA c : c /= Slash)
  IN IF first = 0 THEN <<>> ELSE SubSeq(s, first, last)

\* we: the segments of a path
Segments(p) == Split(Trim(p), Slash)

-----------------------------------------------------------------------------
(* The URL parser, for a path-absolute string o given to pushState or an  *)
(* href: the path ends at the first ? or #; a space in the path is        *)
(* percent-encoded; "." and ".." segments are removed.                    *)

PathPart(o) == LET i == Index(o, {Qm, Hash}) IN IF i = 0 THEN o ELSE SubSeq(o, 1, i - 1)

Encoded(s) == FlattenSeq([k \in DOMAIN s |-> IF s[k] = Space THEN <<Pct, 50, 48>> ELSE <<s[k]>>])

\* The path state's segment handling: ".." pops a segment, "." is dropped,
\* and either one at the end of the path leaves an empty last segment.
RemoveDots(segs) ==
  LET Pop(acc) == IF acc = <<>> THEN acc ELSE SubSeq(acc, 1, Len(acc) - 1)
      step(acc, k) ==
        CASE segs[k] = <<Dot, Dot>> ->
               IF k = Len(segs) THEN Append(Pop(acc), <<>>) ELSE Pop(acc)
          [] segs[k] = <<Dot>> -> IF k = Len(segs) THEN Append(acc, <<>>) ELSE acc
          [] OTHER -> Append(acc, segs[k])
  IN FoldLeft(step, <<>>, [k \in DOMAIN segs |-> k])

\* location.pathname after navigating to o
Pathname(o) ==
  LET p == Encoded(PathPart(o))
  IN <<Slash>> \o Join(RemoveDots(Split(SubSeq(p, 2, Len(p)), Slash)), Slash)

\* location.search after navigating to o
Search(o) ==
  LET q == Index(o, {Qm})
      h == Index(o, {Hash})
      query == IF q = 0 \/ (h > 0 /\ h < q) THEN <<>>
               ELSE SubSeq(o, q + 1, IF h > q THEN h - 1 ELSE Len(o))
  IN IF query = <<>> THEN <<>> ELSE <<Qm>> \o Encoded(query)

-----------------------------------------------------------------------------
(* decodeURIComponent: [ok |-> FALSE] where it throws URIError. *)
RECURSIVE Decode(_)
Decode(s) ==
  IF s = <<>> THEN [ok |-> TRUE, val |-> <<>>]
  ELSE IF s[1] /= Pct
    THEN LET r == Decode(Tail(s)) IN [r EXCEPT !.val = <<s[1]>> \o @]
  ELSE IF Len(s) < 3 \/ HexVal(s[2]) < 0 \/ HexVal(s[3]) < 0 \/ HexVal(s[2]) >= 8
    THEN [ok |-> FALSE, val |-> <<>>]
  ELSE LET r == Decode(SubSeq(s, 4, Len(s)))
       IN [r EXCEPT !.val = <<16 * HexVal(s[2]) + HexVal(s[3])>> \o @]

\* Pt, At, ct: empty, ":param" and "*" segments of a route path
IsEmptySeg(g) == g = <<>>
IsParam(g)    == Len(g) > 1 /\ g[1] = Colon
IsSplat(g)    == Len(g) > 0 /\ g[1] = Star

\* Ie(base, path) for basepath "/": the path a Route registers
Registered(p) == IF p = <<Slash>> THEN <<Slash>> ELSE Trim(p) \o <<Slash>>

\* $t: the rank of a route ("" is the default route)
Score(p) ==
  IF p = <<>> THEN 0
  ELSE FoldLeft(LAMBDA s, g : s + 4 + (CASE IsEmptySeg(g) -> 1 [] IsParam(g) -> 2
                                        [] IsSplat(g) -> -5 [] OTHER -> 3),
                0, Segments(Registered(p)))

\* It: the routes by descending score, then registration order
Ranked == SortSeq([k \in DOMAIN Routes |-> [idx |-> k, score |-> Score(Routes[k])]],
                  LAMBDA x, y : x.score > y.score \/ (x.score = y.score /\ x.idx < y.idx))

\* The inner loop of it for one route: "fail", "throw", or the params.
\* (The splat branch is left out: no route of the app has a "*" segment.)
RECURSIVE MatchSegs(_, _, _, _, _)
MatchSegs(rs, us, root, d, params) ==
  IF d > Len(rs) /\ d > Len(us) THEN [res |-> "match", params |-> params]
  ELSE IF d > Len(us) THEN [res |-> "fail", params |-> params]
  ELSE IF d <= Len(rs) /\ IsParam(rs[d]) /\ ~root
    THEN LET v == Decode(us[d])
         IN IF v.ok THEN MatchSegs(rs, us, root, d + 1, params @@ (Tail(rs[d]) :> v.val))
            ELSE [res |-> "throw", params |-> params]
  ELSE IF d > Len(rs) \/ rs[d] /= us[d] THEN [res |-> "fail", params |-> params]
  ELSE MatchSegs(rs, us, root, d + 1, params)

NoRoute == [idx |-> 0, params |-> <<>>]

\* it(routes, pathname): the first ranked route that matches, else the
\* default route, else null; "throw" when a decode threw first.
RECURSIVE MatchFrom(_, _, _)
MatchFrom(us, k, fallback) ==
  IF k > Len(Ranked) THEN [res |-> "done", route |-> fallback]
  ELSE LET i == Ranked[k].idx
           m == MatchSegs(Segments(Registered(Routes[i])), us, us[1] = <<>>, 1, <<>>)
       IN CASE Routes[i] = <<>> -> MatchFrom(us, k + 1, [idx |-> i, params |-> <<>>])
            [] m.res = "match" -> [res |-> "done", route |-> [idx |-> i, params |-> m.params]]
            [] m.res = "throw" -> [res |-> "throw", route |-> fallback]
            [] OTHER -> MatchFrom(us, k + 1, fallback)

ActiveRoute(path) ==
  LET q == Index(path, {Qm})
  IN MatchFrom(Segments(IF q = 0 THEN path ELSE SubSeq(path, 1, q - 1)), 1, NoRoute)

-----------------------------------------------------------------------------
VARIABLES
  contacts,  \* the names in Ne
  shown,     \* the contacts sn has rendered as links
  path,      \* location.pathname
  active,    \* the Router's active route (p)
  frozen,    \* me is left set by a flush that threw: no flush runs again
  target,    \* history: the contact the last navigation opens, <<>> for Help
  hist,      \* the session history: entries [path, target]
  pos        \* the index of the current entry

vars == <<contacts, shown, path, active, frozen, target, hist, pos>>

\* The listener's d.set(location) and the flush it queues: the active
\* route is recomputed unless a flush is stuck; if it throws, me stays set.
Render(p) ==
  LET r == ActiveRoute(p)
  IN IF frozen THEN UNCHANGED <<active, frozen>>
     ELSE IF r.res = "throw" THEN frozen' = TRUE /\ UNCHANGED active
     ELSE active' = r.route /\ UNCHANGED frozen

\* navigate(o) for the contact n (<<>> for Help): pushState drops the
\* entries after the current one and appends o's; s = he(t); the listeners.
Navigate(o, n) ==
  LET p == Pathname(o)
  IN /\ pos < MaxHistory
     /\ hist' = Append(SubSeq(hist, 1, pos), [path |-> p, target |-> n])
     /\ pos' = pos + 1
     /\ path' = p
     /\ target' = n
     /\ Render(p)

\* The popstate listener of listen(): s = he(t) for the entry at i.
Pop(i) ==
  /\ pos' = i
  /\ path' = hist[i].path
  /\ target' = hist[i].target
  /\ Render(hist[i].path)
  /\ UNCHANGED <<contacts, shown, hist>>

ConversationPath(n) == <<Slash>> \o <<99, 111, 110, 118, 101, 114, 115, 97, 116, 105, 111, 110, 115>> \o <<Slash>> \o n

Init ==
  /\ contacts = {}
  /\ shown = {}
  /\ path = <<Slash>>
  /\ active = ActiveRoute(<<Slash>>).route
  /\ frozen = FALSE
  /\ target = <<>>
  /\ hist = << [path |-> <<Slash>>, target |-> <<>>] >>
  /\ pos = 1

(* The add-contact form: ft(i), then rt("/conversations/" + i). Ne.update *)
(* marks sn dirty before the Router, so sn renders the new link in the     *)
(* same flush, even one that then throws in the Router's update.           *)
AddContact(n) ==
  /\ n /= Self
  /\ contacts' = contacts \cup {n}
  /\ shown' = IF frozen THEN shown ELSE contacts'
  /\ Navigate(ConversationPath(n), n)

(* A click on a contact's link: ut calls rt(s.pathname + s.search). *)
ClickContact(n) ==
  /\ n \in shown
  /\ Navigate(Pathname(ConversationPath(n)) \o Search(ConversationPath(n)), n)
  /\ UNCHANGED <<contacts, shown>>

(* The Help link to "/". *)
ClickHelp ==
  /\ Navigate(<<Slash>>, <<>>)
  /\ UNCHANGED <<contacts, shown>>

(* The browser's back and forward buttons. *)
Back    == pos > 1 /\ Pop(pos - 1)
Forward == pos < Len(hist) /\ Pop(pos + 1)

Next ==
  \/ \E n \in Names : AddContact(n) \/ ClickContact(n)
  \/ ClickHelp
  \/ Back
  \/ Forward

Spec == Init /\ [][Next]_vars

-----------------------------------------------------------------------------
(* Spec 1: the interface is never blocked: every navigation is rendered,  *)
(* i.e. no flush of the Svelte scheduler (nt) ends by an exception that    *)
(* leaves me set, after which kt never queues a flush again.               *)
NoFreeze == ~frozen

\* "contact", the parameter of the route /conversations/:contact
ContactKey == <<99, 111, 110, 116, 97, 99, 116>>

(* Spec 4.5: opening a contact's conversation (the add-contact form or the *)
(* contact's link) sets the active conversation to that contact: once the  *)
(* flush has run, the Router's active route carries the name as :contact.  *)
OpensNamed ==
  ~frozen /\ target /= <<>> =>
    /\ active.idx /= 0
    /\ ContactKey \in DOMAIN active.params
    /\ active.params[ContactKey] = target
=============================================================================
