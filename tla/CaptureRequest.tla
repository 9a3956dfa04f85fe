--------------------------- MODULE CaptureRequest ---------------------------
(***************************************************************************)
(* Captures at one endpoint (web/ingestor/routes.py, CaptureRequest, and   *)
(* the cleaner): the body, the blob, and the one transaction that inserts  *)
(* the request, counts it on the endpoint's row and inserts its forward.   *)
(* get_session commits that transaction, in the pinned FastAPI after the   *)
(* response and its background tasks.                                      *)
(***************************************************************************)
EXTENDS Integers, FiniteSets

CONSTANTS
    Requests,       \* one captured HTTP request each
    Bodies,         \* the kinds of body that arrive
    ForwardUrl,     \* whether the endpoint forwards
    EndpointExpires,
    MaxFaults       \* bound of the model

(* What a body is to the code: too big to be read, above the threshold for *)
(* inline bodies, or small: UTF-8, UTF-8 with a NUL, other bytes.          *)
BodyKinds == {"oversized", "large", "text", "nul", "binary"}

ASSUME CaptureAssumption == /\ Bodies \subseteq BodyKinds
                            /\ ForwardUrl \in BOOLEAN
                            /\ EndpointExpires \in BOOLEAN
                            /\ MaxFaults \in Nat

VARIABLES
    capture,    \* what execute() and the route hold of each request
    rows,       \* requests and their forwards, as committed
    endpoint,   \* the endpoint's row
    blobs,      \* keys in the blob storage
    faults

captureVars == <<capture, rows, endpoint, blobs, faults>>

(* What body_preview and blob_key make of a body. *)
Kept == {"nothing", "as_is", "escaped", "blob"}

Capture == [pc : {"new", "offload", "ready", "saved", "counted", "executed", "answered", "over"},
            body : BodyKinds, kept : Kept, forward : BOOLEAN, count : Nat, aborted : BOOLEAN,
            told : {"none", "configured", "404", "413", "500"}]

Row == [request : {"absent", "stored", "deleted"}, kept : Kept, forward : BOOLEAN]

CaptureTypeOK ==
    /\ capture \in [Requests -> Capture]
    /\ rows \in [Requests -> Row]
    /\ endpoint \in [exists : BOOLEAN, request_count : Nat]
    /\ blobs \subseteq Requests
    /\ faults \in Nat

CaptureInit ==
    /\ capture \in [Requests -> {[pc |-> "new", body |-> b, kept |-> "nothing",
                                  forward |-> FALSE, count |-> 0,
                                  aborted |-> FALSE, told |-> "none"] : b \in Bodies}]
    /\ rows = [r \in Requests |-> [request |-> "absent", kept |-> "nothing", forward |-> FALSE]]
    /\ endpoint = [exists |-> TRUE, request_count |-> 0]
    /\ blobs = {}
    /\ faults = 0

Moves(r, pc) == capture' = [capture EXCEPT ![r].pc = pc]

Told(r, told) == capture' = [capture EXCEPT ![r].pc = "over", ![r].told = told]

Fault == faults < MaxFaults /\ faults' = faults + 1

PreviewInFull(body) == body

(* CapturedRequest.create: the preview of a small body, a key for a large  *)
(* one.  Bytes that are not UTF-8 are kept as their Python escapes.        *)
Preview(body) == CASE body = "large"  -> "blob"
                   [] body = "binary" -> "escaped"
                   [] body \in {"text", "nul"} -> "as_is"
                   [] OTHER -> "nothing"

(* Content-Length, or the count of what is read, exceeds max_body_bytes.   *)
RefuseBody(r) ==
    /\ capture[r].pc = "new" /\ capture[r].body = "oversized"
    /\ Told(r, "413")
    /\ UNCHANGED <<rows, endpoint, blobs, faults>>

FindEndpoint(r) ==
    /\ capture[r].pc = "new" /\ capture[r].body # "oversized"
    /\ IF endpoint.exists
       THEN capture' = [capture EXCEPT
              ![r].pc = IF Preview(capture[r].body) = "blob" THEN "offload" ELSE "ready",
              ![r].kept = Preview(capture[r].body)]
       ELSE Told(r, "404")
    /\ UNCHANGED <<rows, endpoint, blobs, faults>>

PutBlobLater(r) ==
    /\ capture[r].pc = "offload"
    /\ Moves(r, "ready")
    /\ UNCHANGED <<rows, endpoint, blobs, faults>>

PutBlob(r) ==
    /\ capture[r].pc = "offload"
    /\ blobs' = blobs \cup {r}
    /\ Moves(r, "ready")
    /\ UNCHANGED <<rows, endpoint, faults>>

(* A failed put costs the body, not the capture. *)
PutBlobFails(r) ==
    /\ capture[r].pc = "offload"
    /\ Fault
    /\ capture' = [capture EXCEPT ![r].pc = "ready", ![r].kept = "nothing"]
    /\ UNCHANGED <<rows, endpoint, blobs>>

(* The insert, which holds the endpoint's key against deletion; it fails   *)
(* when the endpoint is gone, and on a NUL, which no text column takes.    *)
SaveRequest(r) ==
    /\ capture[r].pc = "ready"
    /\ IF endpoint.exists /\ ~(capture[r].body = "nul" /\ capture[r].kept = "as_is")
       THEN Moves(r, "saved")
       ELSE Told(r, "500")
    /\ UNCHANGED <<rows, endpoint, blobs, faults>>

(* Transactions that hold a lock on the endpoint's row: of any strength,   *)
(* and for update. An error releases them.                                 *)
Holds(r) == capture[r].pc \in {"saved", "counted", "executed", "answered"}
              /\ ~capture[r].aborted

HoldsForUpdate(r) == Holds(r) /\ capture[r].pc # "saved"

IncrementUnlocked(r) ==
    /\ capture[r].pc = "saved"
    /\ capture' = [capture EXCEPT ![r].pc = "counted", ![r].count = endpoint.request_count + 1]
    /\ UNCHANGED <<rows, endpoint, blobs, faults>>

(* UPDATE ... request_count + 1 waits for the row and keeps it until the   *)
(* commit, the configured response delay included.                         *)
IncrementRequestCount(r) ==
    /\ capture[r].pc = "saved"
    /\ \A other \in Requests : ~HoldsForUpdate(other)
    /\ capture' = [capture EXCEPT ![r].pc = "counted", ![r].count = endpoint.request_count + 1]
    /\ UNCHANGED <<rows, endpoint, blobs, faults>>

SaveForward(r) ==
    /\ capture[r].pc = "counted"
    /\ capture' = [capture EXCEPT ![r].pc = "executed", ![r].forward = ForwardUrl]
    /\ UNCHANGED <<rows, endpoint, blobs, faults>>

SaveForwardFailsAlone(r) ==
    /\ capture[r].pc = "counted"
    /\ ForwardUrl
    /\ Fault
    /\ Moves(r, "executed")
    /\ UNCHANGED <<rows, endpoint, blobs>>

(* The exception is swallowed, the transaction is not saved by that.       *)
SaveForwardFails(r) ==
    /\ capture[r].pc = "counted"
    /\ ForwardUrl
    /\ Fault
    /\ capture' = [capture EXCEPT ![r].pc = "executed", ![r].aborted = TRUE]
    /\ UNCHANGED <<rows, endpoint, blobs>>

(* The response, after the configured delay; then its background tasks.    *)
AnswerCapture(r) ==
    /\ capture[r].pc = "executed"
    /\ capture' = [capture EXCEPT ![r].pc = "answered", ![r].told = "configured"]
    /\ UNCHANGED <<rows, endpoint, blobs, faults>>

CommitCapture(r) ==
    /\ capture[r].pc = "answered" /\ ~capture[r].aborted
    /\ Moves(r, "over")
    /\ rows' = [rows EXCEPT ![r] = [request |-> "stored", kept |-> capture[r].kept,
                                    forward |-> capture[r].forward]]
    /\ endpoint' = [endpoint EXCEPT !.request_count = capture[r].count]
    /\ UNCHANGED <<blobs, faults>>

(* commit() of an aborted transaction raises, and get_session rolls back.  *)
RollbackCapture(r) ==
    /\ capture[r].pc = "answered" /\ capture[r].aborted
    /\ Moves(r, "over")
    /\ UNCHANGED <<rows, endpoint, blobs, faults>>

(* The ingestor dies, or loses the database, with a transaction open.      *)
CaptureLost(r) ==
    /\ capture[r].pc \notin {"new", "over"}
    /\ Fault
    /\ Moves(r, "over")
    /\ UNCHANGED <<rows, endpoint, blobs>>

(* The cleaner's DELETE waits for the inserts and cascades.  Blobs stay.   *)
DeleteExpired ==
    /\ EndpointExpires
    /\ endpoint.exists
    /\ \A r \in Requests : ~Holds(r)
    /\ endpoint' = [endpoint EXCEPT !.exists = FALSE]
    /\ rows' = [r \in Requests |->
                  IF rows[r].request = "stored"
                  THEN [rows[r] EXCEPT !.request = "deleted", !.forward = FALSE] ELSE rows[r]]
    /\ UNCHANGED <<capture, blobs, faults>>

CaptureStep(r) ==
    \/ RefuseBody(r) \/ FindEndpoint(r)
    \/ PutBlob(r) \/ PutBlobFails(r)
    \/ SaveRequest(r) \/ IncrementRequestCount(r)
    \/ SaveForward(r) \/ SaveForwardFails(r)
    \/ AnswerCapture(r) \/ RollbackCapture(r) \/ CaptureLost(r)

(* ---------------------------------------------------------------------- *)
(* Properties                                                              *)
(* ---------------------------------------------------------------------- *)

Stored(r) == rows[r].request = "stored"

(* capture_request.py:158-178 swallows a failed forward insert, yet no     *)
(* request is ever stored without the forward its endpoint asks for.       *)
WholeOrAbsent == \A r \in Requests : Stored(r) => rows[r].forward = ForwardUrl

(* capture_request.py:132-155 puts the blob outside the transaction and    *)
(* before it: a stored blob_key leads to a blob, whatever fails when.      *)
BlobBacksRow == \A r \in Requests : (Stored(r) /\ rows[r].kept = "blob") => r \in blobs

(* endpoint_repository.py:79-85: concurrent captures never lose a count.   *)
CountIsExact ==
    endpoint.request_count = Cardinality({r \in Requests : rows[r].request # "absent"})
=============================================================================
