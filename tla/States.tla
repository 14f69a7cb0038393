------------------------------- MODULE States -------------------------------
(***************************************************************************)
(* The statuses of the durable rows and the two transition tables that     *)
(* every status change of an account or of a rental is checked against     *)
(* (app/domain/states.py, app/domain/transitions.py).  A transition that   *)
(* is not in its table raises ValueError, which rolls the enclosing        *)
(* transaction back: in the models such a step does not happen.            *)
(***************************************************************************)

AccountStatus ==
  {"AVAILABLE", "RESERVED", "ACTIVE", "EXPIRING", "REVOKING",
   "ROTATING_PASSWORD", "AVAILABLE_OFFLINE", "MANUAL_REVIEW",
   "SECURITY_ALERT", "DISABLED"}

\* CANCELLED is declared by the source and never assigned by it.
RentalStatus ==
  {"RESERVED", "ACTIVE", "EXPIRING", "REVOKING", "PASSWORD_ROTATION",
   "FINISHED", "CANCELLED", "SECURITY_TERMINATED", "MANUAL_REVIEW"}

FulfillmentStatus == {"PENDING", "ACTIVATED", "FULFILLMENT_BLOCKED"}

\* The operations of a rental's life, in the order the bot creates them.
\* SEND_OTP, which a buyer asks for at will, is kept apart from them.
LifecycleKind ==
  {"DISABLE_LOTS", "SEND_CREDENTIALS", "REVOKE_SESSIONS",
   "ROTATE_PASSWORD", "ENABLE_LOTS"}

AccountEdges ==
  {<<"AVAILABLE", "RESERVED">>, <<"AVAILABLE", "DISABLED">>,
   <<"RESERVED", "ACTIVE">>, <<"RESERVED", "MANUAL_REVIEW">>,
   <<"ACTIVE", "EXPIRING">>, <<"ACTIVE", "SECURITY_ALERT">>,
   <<"ACTIVE", "MANUAL_REVIEW">>,
   <<"EXPIRING", "REVOKING">>, <<"EXPIRING", "MANUAL_REVIEW">>,
   <<"REVOKING", "ROTATING_PASSWORD">>, <<"REVOKING", "MANUAL_REVIEW">>,
   <<"ROTATING_PASSWORD", "AVAILABLE_OFFLINE">>,
   <<"ROTATING_PASSWORD", "MANUAL_REVIEW">>,
   <<"AVAILABLE_OFFLINE", "AVAILABLE">>,
   <<"AVAILABLE_OFFLINE", "MANUAL_REVIEW">>,
   <<"SECURITY_ALERT", "REVOKING">>, <<"SECURITY_ALERT", "MANUAL_REVIEW">>,
   <<"MANUAL_REVIEW", "AVAILABLE">>, <<"DISABLED", "AVAILABLE">>}

\* Mutant of RentalEdges: a rental under review may still be finished.
RentalEdgesOutOfReview ==
  {<<"RESERVED", "ACTIVE">>, <<"RESERVED", "MANUAL_REVIEW">>,
   <<"ACTIVE", "EXPIRING">>, <<"ACTIVE", "REVOKING">>,
   <<"ACTIVE", "SECURITY_TERMINATED">>, <<"ACTIVE", "MANUAL_REVIEW">>,
   <<"EXPIRING", "REVOKING">>, <<"EXPIRING", "MANUAL_REVIEW">>,
   <<"REVOKING", "PASSWORD_ROTATION">>, <<"REVOKING", "MANUAL_REVIEW">>,
   <<"PASSWORD_ROTATION", "FINISHED">>, <<"MANUAL_REVIEW", "FINISHED">>,
   <<"PASSWORD_ROTATION", "MANUAL_REVIEW">>,
   <<"SECURITY_TERMINATED", "REVOKING">>,
   <<"SECURITY_TERMINATED", "MANUAL_REVIEW">>}

RentalEdges ==
  {<<"RESERVED", "ACTIVE">>, <<"RESERVED", "MANUAL_REVIEW">>,
   <<"ACTIVE", "EXPIRING">>, <<"ACTIVE", "REVOKING">>,
   <<"ACTIVE", "SECURITY_TERMINATED">>, <<"ACTIVE", "MANUAL_REVIEW">>,
   <<"EXPIRING", "REVOKING">>, <<"EXPIRING", "MANUAL_REVIEW">>,
   <<"REVOKING", "PASSWORD_ROTATION">>, <<"REVOKING", "MANUAL_REVIEW">>,
   <<"PASSWORD_ROTATION", "FINISHED">>,
   <<"PASSWORD_ROTATION", "MANUAL_REVIEW">>,
   <<"SECURITY_TERMINATED", "REVOKING">>,
   <<"SECURITY_TERMINATED", "MANUAL_REVIEW">>}

=============================================================================
