------------------------------ MODULE ApiClient ------------------------------
(***************************************************************************)
(* The request layer of the portal (tools/apiRequest.tsx): what becomes of *)
(* a call to the API, seen from the page that awaits it.  Pages use it     *)
(* through the functions of src/source/portal/src/apis.                    *)
(***************************************************************************)

(* How a call can end on the wire: the service answers with success, with  *)
(* another status, or with the code for a user without access; or axios    *)
(* gives up (network, HTTP status, or its timeout of 100 seconds), and the *)
(* service may or may not have done what it was asked.                     *)
Wire == {"success", "failure", "noaccess", "lost"}

(* The response interceptor logs an axios error and returns nothing, so    *)
(* that the promise of the call is fulfilled with no response.             *)
Intercepted(wire) == IF wire = "lost" THEN "undefined" ELSE wire

(* apiRequest resolves with the data of a success and rejects everything   *)
(* else, the missing response included; it never leaves a call unsettled.  *)
ApiResult(wire) ==
    IF Intercepted(wire) = "success" THEN "resolved" ELSE "rejected"

Results == {ApiResult(wire) : wire \in Wire}

(* A user without access is sent to the page /noaccess, whatever page the  *)
(* call was made from.                                                     *)
RedirectsToNoAccess(wire) == Intercepted(wire) = "noaccess"

(* What the service can have done when a call ends this way.               *)
PerformedBy(wire) ==
    CASE wire = "success" -> {TRUE}
      [] wire = "lost" -> BOOLEAN
      [] OTHER -> {FALSE}
=============================================================================
