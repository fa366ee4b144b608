----------------------------- MODULE MCStoreOpen -----------------------------
(* The flush that opens a conversation, on the bundle's store graph.      *)
(* The Router's update creates dn, whose creation subscribes ae and en    *)
(* (A) and creates its message children un, each subscribing Se; then     *)
(* mount_component runs the children's onMount before the parent's:       *)
(*   un   onMount: c in s || Ze(Se, {...s, [c]:1})                         *)
(*   dn   onMount a(): ft(r), i.e. Ne.update(e => e.includes(t) ? e : ...), *)
(*        then Ze(ae, r)                                                   *)
(* all inside one nt, each set draining Y before the next begins.         *)
EXTENDS MCStore

OpenFlush(v) ==
  /\ queue = <<>>
  /\ dn \notin mounted
  /\ LET r0 == MountFrom(MountFrom(Fresh(Eng), dn, 1), un, 1)
         r1 == DrainAll(SetStore(r0, Se, v))
         r2 == DrainAll(SetStore(r1, Ne, r1.val[Ne]))
         r3 == DrainAll(SetStore(r2, ae, v))
     IN Apply(r3)
  /\ mounted' = mounted \cup {dn, un}

OpenSpec == Init /\ [][\E v \in Vals : OpenFlush(v)]_vars
=============================================================================
