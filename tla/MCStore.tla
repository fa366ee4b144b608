------------------------------ MODULE MCStore ------------------------------
(* The store graph of the PRISM client, for checking Store with TLC.      *)
(*   Wt = te([de, Se], ...)   unread messages                             *)
(*   Xt = te([Ne, Wt], ...)   unread count per contact                    *)
(*   Zt = te(de, ...)         nonce of the last message (a string)        *)
(*   en = te([de, ae], ...)   transcript of the active conversation       *)
(* Components: sn (contacts panel, always mounted) subscribes Ne, ae, Xt; *)
(* dn (conversation) ae, en; un (a message) Se; tn reads Zt with ht.      *)
EXTENDS Store, TLC

CONSTANTS Ne, ae, de, Se, Wt, Xt, Zt, en, sn, dn, un, tn, v0, v1

AppDeps == (Wt :> <<de, Se>>) @@ (Xt :> <<Ne, Wt>>) @@ (Zt :> <<de>>) @@ (en :> <<de, ae>>)
AppInit == [w \in {Ne, ae, de, Se} |-> v0]
AppComps == (sn :> <<Ne, ae, Xt>>) @@ (dn :> <<ae, en>>) @@ (un :> <<Se>>) @@ (tn :> <<Zt>>)
=============================================================================
