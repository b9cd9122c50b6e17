--------------------------- MODULE OrderLifecycle ---------------------------
(***************************************************************************)
(* The immutable order record of tw_quant/broker/models.py and the         *)
(* transition function of tw_quant/broker/lifecycle.py.                    *)
(*                                                                         *)
(* A record keeps what the Live path decides on: the lifecycle status,     *)
(* whether a broker order id is known and the cumulative filled quantity.  *)
(* Prices, reasons and timestamps are left out; the code forces the        *)
(* timestamps it passes to be monotonic (max with the stored one).         *)
(***************************************************************************)
EXTENDS Integers

CONSTANT Quantity      \* lots of every order (the canary policy allows one)

ASSUME QuantityAssumption == Quantity \in Nat \ {0}

\* BrokerOrderStatus, plus "absent" for a client order id without a row.
Status == {"created", "risk_approved", "submitting", "accepted",
           "partially_filled", "filled", "cancel_pending", "cancelled",
           "rejected", "expired", "unknown"}

Terminal == {"filled", "cancelled", "rejected", "expired"}

\* Statuses an ExternalOrderReport can carry (_REPORT_STATUS, _STATUS_MAP).
ReportStatus == {"accepted", "partially_filled"} \cup Terminal

\* _ALLOWED_TRANSITIONS: the statuses that may follow s.
Allowed(s) ==
    CASE s = "created"          -> {"risk_approved", "rejected"}
      [] s = "risk_approved"    -> {"submitting", "rejected", "unknown"}
      [] s = "submitting"       -> {"accepted", "partially_filled", "filled",
                                    "rejected", "unknown"}
      [] s = "accepted"         -> {"partially_filled", "filled",
                                    "cancel_pending", "cancelled", "rejected",
                                    "expired", "unknown"}
      [] s = "partially_filled" -> {"partially_filled", "filled",
                                    "cancel_pending", "cancelled", "expired",
                                    "unknown"}
      [] s = "cancel_pending"   -> {"cancelled", "partially_filled", "filled",
                                    "unknown"}
      [] s = "unknown"          -> {"accepted", "partially_filled", "filled",
                                    "cancelled", "rejected", "expired"}
      [] OTHER                  -> {}

Row == [status : Status \cup {"absent"}, bid : BOOLEAN, filled : 0..Quantity]

Report == [status : ReportStatus, filled : 0..Quantity]

AbsentRow   == [status |-> "absent", bid |-> FALSE, filled |-> 0]
ReservedRow == [status |-> "risk_approved", bid |-> FALSE, filled |-> 0]

\* transition_order returns its argument untouched for a repeated status.
Repeats(r, s) == s = r.status /\ s # "partially_filled"

\* The checks of transition_order: it raises InvalidOrderTransition otherwise.
CanTransition(r, s, filled) ==
    filled >= r.filled /\ (Repeats(r, s) \/ s \in Allowed(r.status))

\* The record transition_order returns when it does not raise.
TransitionOrder(r, s, bid, filled) ==
    IF Repeats(r, s) THEN r
    ELSE [status |-> s, bid |-> IF bid THEN TRUE ELSE r.bid, filled |-> filled]

\* transition_order(r, UNKNOWN) without an id or a filled quantity.
ToUnknown(r) == TransitionOrder(r, "unknown", FALSE, r.filled)

\* ShioajiBrokerAdapter._apply_report: a report always carries a broker id.
CanApply(r, report)    == CanTransition(r, report.status, report.filled)
ApplyReport(r, report) == TransitionOrder(r, report.status, TRUE, report.filled)
=============================================================================
