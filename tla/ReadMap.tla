------------------------------ MODULE ReadMap ------------------------------
(***************************************************************************)
(* The read map Se of the PRISM client on top of the store engine (Store). *)
(* Every message component un (one per message of the displayed           *)
(* conversation) keeps a copy s of Se, refreshed by its subscription      *)
(*   A(t, Se, a => n(6, s = a))                                            *)
(* and marks its nonce c read in its onMount:                             *)
(*   function h(){ c in s || Ze(Se, s = {...s, [c]: 1}, s) }  return Oe(h) *)
(* All children of a conversation are created (and subscribe) before the  *)
(* first onMount runs, so each onMount writes Se from its own copy.        *)
(* A set of Se is an object assignment: H always reports a change.          *)
(***************************************************************************)
EXTENDS FiniteSets

CONSTANTS
  Msgs,      \* the messages, each shown by its own un component
  SeStore,   \* the store Se
  NoValue

VARIABLES val, subs, started, inited, pending, inputs, queue, got, mounted,
          computes, glitches,
          phase    \* phase[c]: "none", "created" (subscribed) or "mounted"

S == INSTANCE Store WITH
       Writables <- {SeStore}, Derived <- {}, Deps <- [d \in {} |-> <<>>],
       ObjectStores <- {SeStore}, ReSettable <- {}, Vals <- SUBSET Msgs,
       InitVal <- [w \in {SeStore} |-> {}], Comps <- Msgs,
       CompStores <- [c \in Msgs |-> <<SeStore>>], Permanent <- {}, Getters <- {}

allvars == <<val, subs, started, inited, pending, inputs, queue, got, mounted,
             computes, glitches, phase>>

Init == S!Init /\ phase = [c \in Msgs |-> "none"]

(* new an({props}): the component instance subscribes to Se. *)
Create(c) ==
  /\ phase[c] = "none"
  /\ S!Mount(c)
  /\ phase' = [phase EXCEPT ![c] = "created"]

(* A dropped spread: Se is set to the one nonce. *)
MarkReadNoSpread(c) ==
  LET s == got[c][1]
  IN IF c \in s THEN S!Fresh(S!Eng) ELSE S!SetStore(S!Fresh(S!Eng), SeStore, {c})

(* h(): c in s || Ze(Se, s = {...s, [c]: 1}, s), the set and its drain. *)
MarkRead(c) ==
  LET s == got[c][1]
  IN IF c \in s THEN S!Fresh(S!Eng) ELSE S!SetStore(S!Fresh(S!Eng), SeStore, s \cup {c})

(* The onMount callback, run once the whole conversation is mounted. *)
OnMount(c) ==
  /\ phase[c] = "created"
  /\ queue = <<>>
  /\ S!Apply(MarkRead(c))
  /\ phase' = [phase EXCEPT ![c] = "mounted"]
  /\ UNCHANGED mounted

(* The conversation is left (or its keyed block drops the message). *)
Destroy(c) ==
  /\ phase[c] = "mounted"
  /\ S!Unmount(c)
  /\ phase' = [phase EXCEPT ![c] = "none"]

Next ==
  \/ S!Drain /\ UNCHANGED phase
  \/ \E c \in Msgs : Create(c) \/ OnMount(c) \/ Destroy(c)

Spec == Init /\ [][Next]_allvars /\ WF_allvars(S!Drain /\ UNCHANGED phase)

-----------------------------------------------------------------------------
(* Spec 4.6: a message whose component has run its onMount stays marked   *)
(* read: no later onMount, written from another component's copy s of Se, *)
(* drops it, however creations, onMounts and destructions interleave.      *)
MarksNotLost ==
  \A c \in Msgs : phase[c] = "mounted" /\ queue = <<>> => c \in val[SeStore]
=============================================================================
