-------------------------- MODULE MCSingleflight ---------------------------
\* Four calls over three keys and two permits, any of them dropped.
EXTENDS Singleflight

CONSTANTS c1, c2, c3, c4, k1, k2, k3, nothing

FourCalls == {c1, c2, c3, c4}
ThreeKeys == {k1, k2, k3}
=============================================================================
