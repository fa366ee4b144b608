# TLA+ models of the PRISM web client's synchronisation core

The repository's client is one file: `src/prism/client/web/static/assets/index.69a4cb18.js`,
a minified Svelte bundle on a single line. Every `map` entry in `PROJECT.json`
therefore points at line 1. The `symbol` field names the minified identifiers
(`at`, `tn`, `ft`, `dn`'s `h()`, ...) that a definition translates. The names
below are those identifiers. `spec.md` gives the intended behaviour.

## 1. Inventory

### Components, their state and operations

| Component | State (bundle names) | Operations |
|---|---|---|
| **Resilient fetch** | per call: the delay `n` of `xt(100)` | `at(url, opts)` loops `fetch` until `s.ok`, awaiting `Qt(n)` (`setTimeout`) and doubling `n` after each failure. `Ee` (GET with query) and `Vt` (POST JSON) wrap it. |
| **Reactive store engine** | per store: value, subscriber set, stop handle. Global subscriber queue `Y`. | `z` (writable: `set`, `update`, `subscribe`), `te` (derived, with a pending bitmask per source), `H` (`safe_not_equal`: NaN equals NaN, objects are always "changed"), `ht` (get) |
| **Identity & contacts** | `ue` (fetched once from `/persona`), `Ne` (ordered list from `/contacts`) | `ft(name)`: reject `""` and `ue`, append if absent |
| **Message poller** | `de` (message log), `Ue` (seen nonces), `Zt` (derived last nonce) | `tn`, run by `setInterval(tn, 250)`: reads the cursor, awaits `GET /messages?since=`, drops seen nonces, adds them to `Ue`, appends the rest to `de` in one update |
| **Read map and views** | `Se` (nonce → 1), `ae` (active contact) | `Wt` (unread = not in `Se`), `Xt` (unread count per contact), `en` (transcript of `ae`). Each message component `un` adds its nonce to `Se` on mount. |
| **Conversation component `dn`** | input text `i`, contact prop `r` | `a()` on mount: `ft(r)`, `ae := r`. `h()` on submit: if `i` is non-empty, `await Vt("/send", …)`, then `i := ""` and `a()`. |
| **Contacts panel `sn`** | input text | submit: `ft(i) && navigate("/conversations/i")` |
| Svelte runtime | dirty components `Q`, render callbacks `se`, flush flag | microtask flush `nt`; `mount_component` (`$`) queues the children's `onMount` before the parent's |
| **Router** (svelte-routing) | `location`, the Router's store `d`, the active route `p` | `rt` (navigate: `pushState`, then the listeners), `ut` (a link click calls `rt(pathname + search)`), `it` (rank the routes with `$t`/`It`, match segments, `decodeURIComponent` on `:param`). Routes `/conversations/:contact`, then `/`. |
| DOM rendering, preload polyfill | — | pure output / I/O |

### How they interact

User intents (add contact, open a conversation, send) run in DOM event handlers.
They call `ft`, navigate, and write the stores `Ne` and `ae`. Sends go through `at`.
The poller runs on a timer and writes `Ue` and `de`. Derived stores recompute
synchronously through the queue `Y`. The components subscribed to them update
in the next microtask flush. Mounting a message component writes `Se`. That
write changes `Wt` and `Xt`, so the unread counts drop.

Everything runs on one thread. The hard part is what happens between the
awaits: several `tn` invocations overlap (the interval does not wait), a send's
continuation runs after the user may have navigated, and every request may fail
and be retried any number of times.

### Correctness conditions per component

- Resilient fetch: the delay doubles from 100 ms on every failure and restarts for a new call (spec §8). The wait never shrinks (§4.1). Retrying must not duplicate a non-idempotent POST (§1).
- Poller: `de` has no duplicate nonces, misses none and reorders none: it is a prefix of the server's history (§8). It eventually catches up (§4.4).
- Contacts: `Ne` is an ordered set without the own identity (§3, §4.3). Every counterparty of a merged message becomes a contact (§4.4 step 4).
- Read map and views: a message is marked read only when it was shown in its own conversation (§4.6). `ae` is the displayed conversation (§3).
- Store engine: exactly one notification per changing `set` (§8). A derived node recomputes at most once per batched flush (§8, violated: run `store_flush`) and never with inconsistent inputs (§4.2).

## 2. Modules

| Module | Models | Correspondence |
|---|---|---|
| `SyncAbstract` | what sync promises | `srv` only grows at its end. `log` is a prefix of `srv` that only grows (`CatchUp`), with weak fairness. |
| `MessageSync` | poller, resilient fetch (retry control), contacts, read map, `dn`/`sn` intents, server as environment | Variables `srvLog`, `log`=`de`, `seen`=`Ue`, `contacts`=`Ne`, `active`=`ae`, `read`=keys of `Se`, `view` (mounted route), `draft` (`i` non-empty), `polls` (one record per in-flight `tn`: pc, cursor, response, failures), `sends` (one record per `h()` invocation). Actions: `Tick`/`PollFail`/`PollRespond`/`PollMerge` (`tn` + `at`), `Submit`/`SendLost`/`SendUnacked`/`SendAcked`/`SendDone` (`h` + `at`), `Open` (link or add-contact form, new `dn` mounted), `GoHome`, `Type`, `Deliver` (another person's message reaches the server). |
| `MCMessageSync` | model values | two other people `a`, `b`. `/contacts` returns `<<a>>`. |
| `Store` | the store engine: `z`, `te`, `H`, the queue `Y`, component subscriptions (`A`, destroy), `ht` | One record per store of its value `t`, subscriber entries `s` in insertion order, and started flag (`n`). Per derived store: pending bits `u`, inputs `l`, inited flag `c`. Plus the queue `Y` and, per component subscription, the last value its callback got. The engine operations are operators on that record (`SetStore`, `Notify`, `Run`, `Compute`, `Subscribe`/`Start`/`SubDeps`, `Unsubscribe`/`UnsubDeps`). Actions: `ExtSet` (a `set`/`update` from outside a drain, with the guard of `H`), `Drain` (one iteration of the drain loop), `Mount`/`Unmount` (a component's subscriptions in order), `Get` (`ht`). A derived value is the tuple of the inputs it was computed from, so a value computed from stale inputs differs from the reference `Ref`. History variables `computes` and `glitches` record computations. |
| `MCStore` | the bundle's store graph | `Wt=[de,Se]`, `Xt=[Ne,Wt]`, `Zt=[de]`, `en=[de,ae]`. Components: `sn` (always mounted) on `Ne, ae, Xt`; `dn` on `ae, en`; `un` on `Se`; `tn`'s `ht(Zt)`. Arrays and objects are `ObjectStores`; `Ne` may be set to the array it holds (`ft` of a known contact). |
| `MCStoreOpen` | the flush that opens a conversation | `OpenFlush(v)`: one action for the whole `nt` flush in which `dn` and a message `un` mount. `un`'s `onMount` sets `Se`, `ft` sets `Ne` to the same array, then `ae` is set. Each set drains `Y` to its end (`Store!DrainAll`), as the code's set does. |
| `ReadMap` | `Store` composed with the message components `un` | `INSTANCE Store` with one writable `Se` whose values are sets of nonces and one component per message. `Create` (the instance subscribes; its copy `s` follows `Se`), `OnMount` (`c in s \|\| Ze(Se, {...s, [c]:1})` and the drain it causes), `Destroy`. |
| `SendForm` | `dn`'s input text and `h()` | `input` (`i` of the current instance), `view` (the instance), the texts typed, the server's stored texts, and one record per invocation of `h` (text read before the await, instance, retry state). `Type`, `Submit`, `SendLost`/`SendUnacked`/`SendAcked` (`at`), `SendDone` (clear `i` of the submitting instance), `Navigate`. |
| `Router` | navigation: URL parsing, route ranking and matching, and the flush that renders the result | Text is a sequence of character codes. `Pathname`/`Search` are the URL parser for a path-absolute string (the path ends at `?` or `#`, a space becomes `%20`, `.` and `..` segments are removed). `Registered` is `Ie`, `Score` is `$t`, `Ranked` is `It`, `MatchSegs`/`MatchFrom`/`ActiveRoute` are `it`, `Decode` is `decodeURIComponent` (it throws on a `%` not followed by two hex digits). Variables: `contacts` (`Ne`), `shown` (the links `sn` has rendered), `path`, `active` (the Router's `p`), `frozen` (`me` left set by a flush that threw), the session history `hist`/`pos`, and the history variable `target`. Actions: `AddContact` (`sn`'s submit: `ft`, then `rt`), `ClickContact`, `ClickHelp` (each a `pushState` through `Navigate`), and `Back`/`Forward` (the `popstate` listener, `Pop`). Each one ends with the flush (`Render`), which is skipped once `frozen` holds. |
| `MCRouter` | model values | The alphabet `a % ? # / . space 4 1`, names of up to 3 characters, the app's two routes, and a history of up to 3 entries (`MaxHistory`). |
| `Backoff` | `xt`/`Qt` delay arithmetic for concurrent `at()` calls | `n` is kept as the low 32 bits of its value (two 16-bit halves, since TLC integers are 32-bit) plus a flag for n ≥ 2^31. `TimerDelays` is what `setTimeout` waits: the WebIDL `long` conversion (mod 2^32, signed, negative → 0), or immediately for engines that fire at once above 2^31−1. `Doubled` is a RECURSIVE reference. |

Modelling choices in `MessageSync`:

- A message's nonce is its position in the server log. That is the order `since` uses. `sid` is a history field naming the submit that produced a message.
- The Svelte flush is a microtask, so no timer, network or user event comes between a store change and its rendering. Every action that changes `de` or `ae` therefore also applies its rendering: a mounted `dn` shows `en` for the current `ae`, and every newly mounted message is added to `Se` (`Shown`).
- `Open(c)` reproduces `mount_component`'s order. The new `dn` first renders `en` for the old `ae` and those children's `onMount` run first. Then `a()` runs `ft(c)` and sets `ae := c`, and the flush shows `c`'s transcript.
- `SendDone` runs `a()` even when the submitting component has been destroyed. `c.focus()` then throws, but only after `ae` has been set.
- A request attempt that fails is bounded by `MaxFails` per request. That bound is the assumption that the network is eventually reachable.
- The add-contact form and a contact link both end in `Open(c)`. Names are drawn from the other people. The form's rejection of `""` and of the own name is the guard `ValidContact`, which a late send never hits because `r` is always a contact.

## 3. Runs

| Run | Cfg | Expect | What it shows |
|---|---|---|---|
| `sync` | `MCMessageSync.cfg` | pass | Two overlapping polls, retries, sends and navigation. `de` is always a prefix of the server log (`LogIsServerPrefix`), `MessageSync` refines `SyncAbstract`, including eventual catch-up (`Refinement`), and while a conversation stays displayed with `ae` naming it, every message its contact sent is eventually rendered and marked read (`ReadWhileDisplayed`). About 1.04M states, 2 min. |
| `stale_active` | `MCMessageSync_active.cfg` | violation | Open `a`, type, submit, open `b`, the send completes: `ae = a` while `b` is displayed. |
| `read_elsewhere` | `MCMessageSync_readshown.cfg` | violation | Open `a`, go Home, a message from `a` is merged, open `b`: `a`'s message is marked read. |
| `contact_discovery` | `MCMessageSync_contacts.cfg` | violation | A message from `b`, who is not in `/contacts`, is merged and `b` never becomes a contact. |
| `store_app` | `MCStore.cfg` | pass | On the bundle's graph, with sets, mounts, unmounts and `ht` interleaved: no derived store computes from stale inputs (`NoGlitch`); once `Y` is drained, every started store holds its reference value and every mounted component holds its stores' values (`SettledConsistent`), including after stops and restarts. About 20k states. |
| `read_map` | `MCReadMap.cfg` | pass | Three message components, created together and mounted in any order, each writing `Se` from its own copy: no mark is ever dropped (`MarksNotLost`), because each `set` drains `Y` synchronously and refreshes every copy before the next `onMount`. |
| `store_flush` | `MCStoreOpen_flush.cfg` | violation | `MCStoreOpen`'s `OpenFlush` is the flush that mounts a conversation. `dn` and a message `un` subscribe. The message's `onMount` sets `Se`, then `a()` runs `ft` (`Ne.update` returning the same array, which `H` counts as a change) and sets `ae`. Every set drains `Y` at once, so `Xt = te([Ne, Wt])` computes twice in that one flush, against spec §8's one recomputation per batched flush (`RecomputeOnce`). |
| `draft_lost` | `MCSendForm_lost.cfg` | violation | Type `t1`, submit, type `t2`, the send completes: `t2` is erased unsent. |
| `dup_text` | `MCSendForm_dup.cfg` | violation | A POST whose response was lost is retried and the text is stored twice. With `MaxFails = 0` the same property is violated by a second Enter while the first send is pending. |
| `backoff_wrap` | `MCBackoff_wait.cfg` | violation | On the 26th consecutive failure, n = 100·2^25 ms exceeds 2^31−1 and the timer waits 0 ms. |
| `router_freeze` | `MCRouter_freeze.cfg` | violation | Adding the contact `%` navigates to `/conversations/%`. The Router's update, run inside `nt`, calls `decodeURIComponent("%")`, which throws. `me` stays true, so `kt` never queues a flush again and no later change (polls, sends, navigation) is rendered (`NoFreeze`). |

| `router_named` | `MCRouter_named.cfg` | violation | Adding the contact `#` navigates to `/conversations/#`. The path is `/conversations/` and no route matches, so the named contact's conversation is not opened (`OpensNamed`, spec 4.5). `target` is a history variable: the contact the last navigation asked for. |

The unencoded names that `router_named` is about lead to other routes as well. `ActiveRoute` gives:
- `a?b` and `a#b` open `a`'s conversation;
- `%41` opens contact `A`'s conversation;
- `.`, `?` and `a/b` match no route;
- `..` opens Help.

A derived store fed twice by one source (a diamond `D = te([A, te(A)])`) would compute from the new `A` and the old `B`. The bundle's store graph has no diamond, and `store_app` checks `NoGlitch` on that graph. No run builds a diamond.

Bounds. The server log holds at most 2 messages. That is enough for one poll
to have its response merged after another poll's merge, so that a
response overlaps what `de` already holds. There are 2 poll slots (two `tn`
invocations in flight at once), 1 send, and `MaxFails = 1`: one failed attempt
per request is enough to exercise every retry branch, and a second adds only
states. With 3 messages, the `sync` run takes 15M states and 29 minutes and
shows nothing new. `Backoff` runs 30 failures, past the 25 doublings where
`n` crosses 2^31. `Store` uses two values per writable, which is enough for
every set to change a value and for an object store to be set again.
`MCStore` mounts and unmounts all four components; `ReadMap` uses three
messages, so one `onMount` can follow two others. `MCRouter` uses names of up to 3 characters over 9 characters, enough for every case listed under the `router_freeze` run, `%41` included. `SendForm` (runs `draft_lost`, `dup_text`) has two texts,
two submits, one failure per request and one navigation: enough for a text
typed during a pending send, a second submit, and a send completing in a
destroyed instance.

Fairness. Weak fairness is assumed for `Tick` (the interval timer always
fires), `PollRespond` and `SendAcked` (the network is eventually reachable and
the failure bound holds), and for `PollMerge` and `SendDone` (promise
continuations run). User actions and other people's messages are not fair. `Store` assumes weak
fairness of `Drain`, because the drain loop runs synchronously inside `set`.
`SendForm` states the same fairness as `MessageSync` for `SendAcked` and `SendDone`, but its runs check only safety. A liveness claim for a send ("every submit completes") would follow from that fairness alone. `at()` retries a server that keeps answering not-ok forever, so no such property is stated. The hazard list says this.

## 4. Not modelled

- In `MessageSync` the store engine is treated as atomic, and derived values are operators over the current state. `Store` (run `store_app`) shows that this is sound for the bundle's graph: every drained state is consistent.
- `H` notifying a subscriber with the value it already holds (`Ne.update` returning the same array) is reproduced by `Store`, where `SettledConsistent` holds with it. It costs a recomputation, not a wrong value, and it is the second computation of `Xt` in the `store_flush` run.
- In `Router`: the history state object and `replaceState` (the `replace` attribute of links). None of the app's links sets it. Both `Router` runs are violation runs, which stop at the first step. Run over the alphabet `{a, 1}`, every `Router` action fires and both properties hold. The splat (`*`) branch of `it` is also left out, because no route of the app has one. `Backoff` has no passing run left. Its one run, `backoff_wrap`, checks the property that matters for its hazard.
- DOM rendering, focus and scrolling, and the module-preload polyfill change no state the properties are about.
- Message text and timestamps are left out. Only nonce, sender, receiver and the history field are kept.
- Unbounded growth of `Ue` and `Se` is a session-length memory concern. It is listed as a hazard but a bounded model cannot show it.

## 5. Plan

1. Done: `SyncAbstract`, `MessageSync`, `Backoff`, `Store` with `MCStore` and `MCStoreOpen`, `ReadMap`, `SendForm`, `Router`.
4. Done: `popstate` (browser back and forward) in `Router`.
2. Compose `Store` with the poller's cursor: `ht(Zt)` read while `de` is being updated in a drain.
3. `Home` in `SendForm` (typing disabled) and the contact `r` of each send, to join `SendForm` with `MessageSync`'s `ae` results.
