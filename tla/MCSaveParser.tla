---------------------------- MODULE MCSaveParser ----------------------------
(* Files with each kind of property, and containers in containers.         *)
EXTENDS SaveParser

Cells(k) == [k |-> k, n |-> 0]
Scalar == <<Cells("scalar")>>
Alien  == <<Cells("alien")>>
Odd    == <<Cells("odd")>>
None   == <<Cells("none")>>
Value  == <<Cells("value")>>
Cnt(n) == <<[k |-> "count", n |-> n]>>
\* A container with its value.
Of(k, v) == <<[k |-> k, n |-> Len(v)]>> \o v

SomeDocs ==
  { Of("struct", Scalar \o None) \o Alien \o Scalar \o None,
    Of("struct", Of("struct", Scalar \o None) \o None) \o Scalar \o None,
    Of("lists", Cnt(2) \o None \o Scalar \o None) \o Scalar \o None,
    Of("values", Cnt(2) \o Value \o Value) \o Scalar \o None,
    Of("struct", Of("opaque", Cnt(1) \o Value) \o None) \o Scalar \o None,
    Of("struct", Odd \o Scalar \o None) \o Scalar \o None }
=============================================================================
