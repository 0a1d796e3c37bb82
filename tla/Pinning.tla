------------------------------ MODULE Pinning ------------------------------
(***************************************************************************)
(* How the server puts a file or a JSON document on IPFS, through the      *)
(* pinning service: the limits it checks first, the answers it may get,    *)
(* and the URI it makes of a good one.  Everything pinned is content       *)
(* addressed: the URI stands for what was pinned.                          *)
(***************************************************************************)
EXTENDS Naturals

CONSTANTS
  MaxFileBytes, MaxJsonBytes,   \* IPFS_MAX_FILE_BYTES, IPFS_MAX_JSON_BYTES
  AllowedTypes,                 \* IPFS_ALLOWED_MIME_TYPES
  FallbackSetting               \* the text of IPFS_ALLOW_AGREEMENT_FALLBACK

PinningAssumption ==
  /\ MaxFileBytes \in Nat \ {0} /\ MaxJsonBytes \in Nat \ {0}
  /\ FallbackSetting \in {"unset", "", "true", "false"}

(* The setting is coerced as JavaScript does: any text but the empty one    *)
(* is true.                                                                 *)
AllowFallback == FallbackSetting \notin {"unset", ""}

(* A browser that cannot tell a file's type says "application/octet-stream". *)
FileAccepted(file) ==
  file.bytes > 0 /\ file.bytes <= MaxFileBytes /\ file.type \in AllowedTypes

JsonAccepted(bytes) == bytes <= MaxJsonBytes

(* pinned; an HTTP error; a body that is no pin; nothing before the abort   *)
(* timer; a connection that breaks; a hash that is no CID.                  *)
Answers == {"pinned", "refused", "malformed", "timeout", "broken", "badcid"}

Failed(answer) ==
  [uri  |-> "none",
   code |-> CASE answer = "refused"   -> "IPFS_UPLOAD_FAILED"
              [] answer = "malformed" -> "IPFS_UPLOAD_INVALID_RESPONSE"
              [] answer = "timeout"   -> "IPFS_UPLOAD_TIMEOUT"
              [] answer = "broken"    -> "IPFS_UPLOAD_UNKNOWN_ERROR"
              [] answer = "badcid"    -> "IPFS_INVALID_CID"]

PinOutcome(answer, content) ==
  IF answer = "pinned" THEN [uri |-> content, code |-> "ok"] ELSE Failed(answer)

(* uploadFileToIpfs: nothing is sent of a file the limits refuse.           *)
UploadFile(file, answer) ==
  IF FileAccepted(file) THEN PinOutcome(answer, file.content)
  ELSE [uri |-> "none", code |-> "IPFS_FILE_REFUSED"]

(* uploadJsonToIpfs.                                                        *)
UploadJson(document, bytes, answer) ==
  IF JsonAccepted(bytes) THEN PinOutcome(answer, document)
  ELSE [uri |-> "none", code |-> "IPFS_JSON_TOO_LARGE"]
=============================================================================
