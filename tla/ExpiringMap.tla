----------------------------- MODULE ExpiringMap -----------------------------
(* What contract.CacheStore promises: a map whose entries end by themselves.  An   *)
(* entry is there from its Put until a Forget, a Flush, another Put of its key, or  *)
(* the passing of its last moment (0: it has none).                                 *)
EXTENDS Naturals

CONSTANTS XKeys, XValues, XMoments,
          XNil  \* no value
VARIABLES live, now

Missing == [val |-> XNil, until |-> 0]
Lives(entry, t) == entry = Missing \/ entry.until = 0 \/ t <= entry.until
Kept(t) == [k \in XKeys |-> IF Lives(live[k], t) THEN live[k] ELSE Missing]

XInit == live = [k \in XKeys |-> Missing] /\ now = 0
XPut == \E k \in XKeys, v \in XValues, until \in XMoments :
          live' = [live EXCEPT ![k] = [val |-> v, until |-> until]] /\ now' = now
XForget == \E k \in XKeys : live' = [live EXCEPT ![k] = Missing] /\ now' = now
XFlush == live' = [k \in XKeys |-> Missing] /\ now' = now
XTick == now' = now + 1 /\ live' = Kept(now + 1)

XSpec == XInit /\ [][XPut \/ XForget \/ XFlush \/ XTick]_<<live, now>>
=============================================================================
