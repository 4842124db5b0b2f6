---------------------------- MODULE ErrorMapping ----------------------------
(***************************************************************************)
(* How an error reaches the client: the Kubernetes adapter turns API       *)
(* statuses into domain errors (internal/providers/kubernetes/errors.go),  *)
(* and the handlers turn domain errors into Connect codes                  *)
(* (internal/handler/code.go).  An error is a record [type, code]; code is *)
(* the reason of a Status and the ErrorCode of a DomainError.              *)
(***************************************************************************)

\* The concrete error types of internal/core/errors.go.
ErrInvalidInput == [type |-> "ErrInvalidInput", code |-> ""]
ErrSessionNotFound == [type |-> "ErrSessionNotFound", code |-> ""]
ErrClusterNotFound == [type |-> "ErrClusterNotFound", code |-> ""]
ErrNotReady == [type |-> "ErrNotReady", code |-> ""]
DomainError(code) == [type |-> "DomainError", code |-> code]

\* What client-go returns: a Status of the API server, or an error of its own
\* such as a lost connection or a timeout (external).
Status(reason) == [type |-> "Status", code |-> reason]
OtherError == [type |-> "other", code |-> ""]

statusReasonToDomainCode ==
    [Unauthorized |-> "ErrorCodeUnauthenticated", Forbidden |-> "ErrorCodePermissionDenied",
     NotFound |-> "ErrorCodeNotFound", AlreadyExists |-> "ErrorCodeAlreadyExists",
     Conflict |-> "ErrorCodeFailedPrecondition", Gone |-> "ErrorCodeNotFound",
     Invalid |-> "ErrorCodeInvalidArgument", ServerTimeout |-> "ErrorCodeDeadlineExceeded",
     StoreReadError |-> "ErrorCodeInternal", Timeout |-> "ErrorCodeDeadlineExceeded",
     TooManyRequests |-> "ErrorCodeResourceExhausted", BadRequest |-> "ErrorCodeInvalidArgument",
     MethodNotAllowed |-> "ErrorCodeUnimplemented", NotAcceptable |-> "ErrorCodeInvalidArgument",
     RequestEntityTooLarge |-> "ErrorCodeResourceExhausted",
     UnsupportedMediaType |-> "ErrorCodeInvalidArgument", InternalError |-> "ErrorCodeInternal",
     Expired |-> "ErrorCodeInvalidArgument", ServiceUnavailable |-> "ErrorCodeUnavailable"]

\* Every reason of the table, and one it does not have.
Reasons == DOMAIN statusReasonToDomainCode \cup {"Unknown"}

wrapK8sError(err) ==
    IF err.type # "Status" THEN err
    ELSE DomainError(IF err.code \in DOMAIN statusReasonToDomainCode
                     THEN statusReasonToDomainCode[err.code] ELSE "ErrorCodeInternal")

domainCodeToConnectCode ==
    [ErrorCodeInternal |-> "Internal", ErrorCodeInvalidArgument |-> "InvalidArgument",
     ErrorCodeNotFound |-> "NotFound", ErrorCodeAlreadyExists |-> "AlreadyExists",
     ErrorCodeUnauthenticated |-> "Unauthenticated",
     ErrorCodePermissionDenied |-> "PermissionDenied",
     ErrorCodeFailedPrecondition |-> "FailedPrecondition",
     ErrorCodeDeadlineExceeded |-> "DeadlineExceeded",
     ErrorCodeResourceExhausted |-> "ResourceExhausted",
     ErrorCodeUnimplemented |-> "Unimplemented", ErrorCodeUnavailable |-> "Unavailable"]

\* (mutation) an error of an unknown type is the client's fault
domainErrorToConnectErrorBlames(err) ==
    CASE err.type = "ErrInvalidInput" -> "InvalidArgument"
      [] err.type \in {"ErrSessionNotFound", "ErrClusterNotFound"} -> "NotFound"
      [] err.type = "ErrNotReady" -> "Unavailable"
      [] err.type = "DomainError" -> domainCodeToConnectCode[err.code]
      [] OTHER -> "InvalidArgument"

domainErrorToConnectError(err) ==
    CASE err.type = "ErrInvalidInput" -> "InvalidArgument"
      [] err.type \in {"ErrSessionNotFound", "ErrClusterNotFound"} -> "NotFound"
      [] err.type = "ErrNotReady" -> "Unavailable"
      [] err.type = "DomainError" -> domainCodeToConnectCode[err.code]
      [] OTHER -> "Internal"

\* The Connect code for an error of a call to the API server.
CodeOf(err) == domainErrorToConnectError(wrapK8sError(err))
=============================================================================
