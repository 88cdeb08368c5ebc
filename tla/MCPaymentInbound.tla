-------------------------- MODULE MCPaymentInbound --------------------------
(* One payment; its authorisation, capture, failure and refund, a capture   *)
(* with another amount and an event of an unsupported type.                 *)
EXTENDS PaymentInbound

CONSTANTS p1, authorized, captured, failed, refunded, other, unknown, h1, h2

MCPayments == {p1}
MCEvents == {authorized, captured, failed, refunded, other, unknown}
MCPaymentOf == [e \in MCEvents |-> p1]
MCTarget ==
  [e \in MCEvents |->
     CASE e = authorized -> "attempted"
       [] e \in {captured, other} -> "captured"
       [] e = failed -> "failed"
       [] e = refunded -> "refunded"
       [] e = unknown -> "unsupported"]
MCDisagreeing == {other}
MCHandlers == {h1, h2}
=============================================================================
