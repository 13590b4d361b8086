---------------------------- MODULE ReferenceReader ----------------------------
(***************************************************************************)
(* Reading one public reference of a brand: the host of every hop is       *)
(* resolved and all its addresses are checked, the request goes to the     *)
(* address that was checked, the body arrives in chunks while the          *)
(* connection may break or fall silent, and what arrived becomes evidence, *)
(* another hop, or an error with a code.                                   *)
(*                                                                         *)
(* A host may resolve to other addresses each time it is asked.  A size is *)
(* a number of chunks; a body is the kind of content in it, which only     *)
(* decoding reveals.                                                       *)
(***************************************************************************)
EXTENDS Naturals, Sequences

CONSTANTS Hosts,         \* the hosts a reference or a redirect may name
          LocalHosts,    \* those that are names of this machine or network
          Addresses,     \* what a host may resolve to
          Public,        \* the addresses isPublicAddress accepts
          MaxBytes,      \* the size limit, in chunks
          MaxRedirects,
          MaxLookups,    \* bound: addresses one lookup returns
          Nobody

ReaderAssumption == /\ LocalHosts \subseteq Hosts /\ Public \subseteq Addresses
                    /\ MaxBytes \in Nat \ {0} /\ MaxRedirects \in Nat
                    /\ MaxLookups \in Nat \ {0} /\ Nobody \notin Hosts \cup Addresses

VARIABLES host, redirects,
          target,    \* the address that was checked for this hop
          peer,      \* the address the request went to
          response,  \* status, type, encoding and content of the answer
          size,      \* chunks received and kept
          sent,      \* chunks the server sent
          settled,   \* the transport's promise: pending, resolved or rejected
          truncated, pc,
          answer     \* "none", an error code, or the evidence

vars == <<host, redirects, target, peer, response, size, sent, settled,
          truncated, pc, answer>>

Statuses == {"ok", "redirect", "nowhere", "refused"}
Types == {"html", "plain", "json", "pdf", "image"}
Encodings == {"identity", "gzip", "nested", "unknown"}
Bodies == {"text", "empty", "binary", "pdf", "locked", "scanned", "orders"}
Codes == {"unsafe-target", "unavailable", "timeout", "too-large",
          "unsupported-content", "invalid-response"}
NoResponse == [status |-> "none", type |-> "html", encoding |-> "identity",
               body |-> "empty"]

Init ==
  /\ host \in Hosts /\ redirects = 0 /\ target = Nobody /\ peer = Nobody
  /\ response = NoResponse /\ size = 0 /\ sent = 0 /\ settled = "pending"
  /\ truncated = FALSE /\ pc = "resolve" /\ answer = "none"

Fail(code) ==
  /\ pc' = "done" /\ answer' = code
  /\ UNCHANGED <<host, redirects, target, peer, response, size, sent, settled,
                 truncated>>

\* (mutant) one public address among those a host has is enough
SafeAny(found) == \E n \in DOMAIN found : found[n] \in Public

\* resolveSafeTarget: every address is public.
Safe(found) == found # <<>> /\ \A n \in DOMAIN found : found[n] \in Public

Resolve(found) ==
  /\ pc = "resolve" /\ host \notin LocalHosts /\ Safe(found)
  /\ target' = found[1] /\ pc' = "request"
  /\ UNCHANGED <<host, redirects, peer, response, size, sent, settled, truncated, answer>>
RefuseTarget(found) ==
  /\ pc = "resolve"
  /\ host \in LocalHosts \/ ~Safe(found)
  /\ Fail("unsafe-target")
LookupFails == /\ pc = "resolve" /\ host \notin LocalHosts /\ Fail("unavailable")

(* nodeTransport *)

\* The request goes to the pinned address, whatever the name means by now.
Connect ==
  /\ pc = "request"
  /\ \E status \in Statuses, type \in Types, encoding \in Encodings, body \in Bodies :
       response' = [status |-> status, type |-> type, encoding |-> encoding, body |-> body]
  /\ peer' = target /\ pc' = "body"
  /\ size' = 0 /\ sent' = 0 /\ settled' = "pending" /\ truncated' = FALSE
  /\ UNCHANGED <<host, redirects, target, answer>>
ConnectFails ==
  \E code \in {"unavailable", "timeout"} : pc = "request" /\ Fail(code)

Text == {"html", "plain"}
Truncatable == response.type \in Text /\ response.encoding = "identity"

Kept(n) == IF n > MaxBytes - size THEN MaxBytes ELSE size + n

Data(n) ==
  /\ pc = "body" /\ settled = "pending"
  /\ sent' = sent + n
  /\ LET over == n > MaxBytes - size
     IN /\ settled' = IF ~over THEN "pending"
                      ELSE IF Truncatable THEN "resolved" ELSE "too-large"
        /\ size' = IF over /\ ~Truncatable THEN size ELSE Kept(n)
        /\ truncated' = (over /\ Truncatable)
  /\ UNCHANGED <<host, redirects, target, peer, response, pc, answer>>
End ==
  /\ pc = "body" /\ settled = "pending" /\ settled' = "resolved"
  /\ UNCHANGED <<host, redirects, target, peer, response, size, sent, truncated, pc, answer>>
\* The connection breaks, or nothing comes for timeoutMs: after the response
\* was settled neither changes anything.
Broken(code) ==
  /\ pc = "body"
  /\ settled' = IF settled = "pending" THEN code ELSE settled
  /\ UNCHANGED <<host, redirects, target, peer, response, size, sent, truncated, pc, answer>>

(* readUrl past the transport *)

\* (mutant) a silent server is not answered for
RejectedIfBroken ==
  pc = "body" /\ settled \in Codes \ {"timeout"} /\ Fail(settled)

Rejected == /\ pc = "body" /\ settled \in Codes /\ Fail(settled)
Resolved(status) == pc = "body" /\ settled = "resolved" /\ response.status = status
Redirect(to) ==
  /\ Resolved("redirect") /\ redirects < MaxRedirects
  /\ host' = to /\ redirects' = redirects + 1 /\ pc' = "resolve"
  /\ UNCHANGED <<target, peer, response, size, sent, settled, truncated, answer>>
RedirectTooFar ==
  /\ Resolved("nowhere") \/ (Resolved("redirect") /\ redirects >= MaxRedirects)
  /\ Fail("invalid-response")
BadTarget == Resolved("redirect") /\ redirects < MaxRedirects /\ Fail("unsafe-target")
Refused == Resolved("refused") /\ Fail("unavailable")

\* decodeResponseBody: what decoding leaves, in chunks; 0 when it fails.
Decoded(length) ==
  IF response.encoding = "identity" THEN length = size
  ELSE size > 0 /\ length \in 0..(MaxBytes + 1)
DecodeFails ==
  /\ Resolved("ok")
  /\ \/ response.encoding # "identity" /\ truncated /\ Fail("too-large")
     \/ response.encoding \in {"nested", "unknown"} /\ ~truncated
          /\ Fail("unsupported-content")
     \/ response.encoding \in {"gzip", "nested"} /\ ~truncated
          /\ \E code \in {"too-large", "invalid-response"} : Fail(code)

\* A PDF by its type or its first bytes.
IsPdf == response.type = "pdf" \/ response.body \in {"pdf", "locked", "scanned"}

\* extractPdfContext: the text objects of a PDF that is not encrypted; a scan
\* has none.
OfPdf(length) ==
  IF response.body = "locked" THEN "unsupported-content"
  ELSE IF response.body = "pdf" /\ length > 0 THEN "evidence"
  ELSE "invalid-response"

\* extractHtmlContext and its like for JSON and plain text: words are left
\* once markup, scripts and navigation are gone.
HasWords(length) == response.body \in {"text", "orders"} /\ length > 0

\* sanitizeInstructionBearingField drops every sentence that gives orders, and
\* an excerpt of which nothing is left is an error.
Sanitized(found) ==
  IF found = "evidence" /\ response.body = "orders" THEN "rejected" ELSE found

Judged(length) ==
  Sanitized(
    IF truncated /\ (IsPdf \/ ~(response.type \in Text)) THEN "too-large"
    ELSE IF IsPdf THEN OfPdf(length)
    ELSE IF response.type = "image" THEN "unsupported-content"
    ELSE IF HasWords(length) THEN "evidence" ELSE "invalid-response")
Judge(length) ==
  /\ Resolved("ok") /\ response.encoding \in {"identity", "gzip", "nested"}
  /\ ~(truncated /\ response.encoding # "identity")
  /\ Decoded(length)
  /\ pc' = "done"
  /\ answer' = IF response.encoding # "identity" /\ length > MaxBytes THEN "too-large"
               ELSE Judged(length)
  /\ size' = length
  /\ UNCHANGED <<host, redirects, target, peer, response, sent, settled, truncated>>

Chunks == 1..(MaxBytes + 1)
Lookups == UNION {[1..n -> Addresses] : n \in 0..MaxLookups}
Next ==
  \/ \E found \in Lookups : Resolve(found) \/ RefuseTarget(found)
  \/ LookupFails \/ Connect \/ ConnectFails
  \/ \E n \in Chunks : Data(n)
  \/ End \/ (\E code \in {"unavailable", "timeout"} : Broken(code))
  \/ Rejected \/ (\E to \in Hosts : Redirect(to)) \/ RedirectTooFar \/ BadTarget
  \/ Refused \/ DecodeFails \/ (\E n \in 0..(MaxBytes + 1) : Judge(n))

\* Every part of the loop goes on, and a silent server is timed out.
Spec == Init /\ [][Next]_vars /\ WF_vars(Next)
-----------------------------------------------------------------------------
TypeOK ==
  /\ host \in Hosts /\ redirects \in 0..MaxRedirects
  /\ target \in Addresses \cup {Nobody} /\ peer \in Addresses \cup {Nobody}
  /\ size \in 0..(MaxBytes + 1) /\ settled \in Codes \cup {"pending", "resolved"}
  /\ pc \in {"resolve", "request", "body", "done"}
  /\ answer \in Codes \cup {"none", "evidence", "rejected"}

\* No byte is asked of an address that was not checked for the hop it belongs
\* to: the name may mean something else by the time the request is made, and a
\* redirect is a new name (resolveSafeTarget, nodeTransport, readUrl).
OnlyChecked == peer # Nobody => peer \in Public

\* What becomes evidence of a brand arrived whole, or is text cut at the
\* limit; it is never a compressed stream that lost its end, nor more than
\* the limit after decoding, nor the answer to a request that was given up.
EvidenceWhole ==
  answer = "evidence" =>
    /\ settled = "resolved" /\ size \in 1..MaxBytes /\ response.status = "ok"
    /\ sent > size /\ response.encoding = "identity" => truncated
    /\ truncated => response.type \in Text /\ response.encoding = "identity"
                    /\ response.body = "text"

\* Every read ends, on servers that redirect in circles, fall silent, or send
\* for as long as they are listened to.
ReadEnds == <>(pc = "done")
=============================================================================
