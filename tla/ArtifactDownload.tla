----------------------------- MODULE ArtifactDownload -----------------------------
(***************************************************************************)
(* The download of a node's artifact through the server.  A link carries   *)
(* what it is for and until when, signed with a secret that the first      *)
(* link creates; the server reads the artifact from the node chunk by      *)
(* chunk, checks every chunk against the link and against the first chunk, *)
(* and sends each of them one step late: what it has read last it holds    *)
(* back, until the next one, or the checksum of all, has been verified.    *)
(* The length of the whole is announced before the first byte is sent, so  *)
(* a client takes a body of that length for the artifact.                  *)
(*                                                                         *)
(* The node is not trusted: it answers anything of the right shape.  Bytes *)
(* are told apart by the content they belong to; the digest of a body      *)
(* tells whether all of it belongs to one.  Times of links are in steps.   *)
(***************************************************************************)
EXTENDS Naturals, FiniteSets

CONSTANTS Download,        \* requests at a time, all of one node
          ArtifactContent,         \* contents an artifact may have
          ProxyBytes,      \* maxProxiedArtifactBytes
          ChunkBytes,      \* protocol.MaxArtifactChunkBytes
          ChunkRequests,   \* maxArtifactChunkRequests
          NodeDownloads,   \* maxConcurrentArtifactDownloadsPerNode
          LastStep,        \* bound on the time
          NoContent

ASSUME ArtifactConstants ==
  /\ IsFiniteSet(Download) /\ {ProxyBytes, ChunkBytes, NodeDownloads, LastStep} \subseteq Nat
  /\ ChunkRequests \in Nat \ {0}

VARIABLES
  secret,     \* secrets/artifact-url-secret: whether there is one
  links,      \* the expiries of the links that were signed
  linkTime,
  slots,      \* artifactDownloads[node]
  download    \* each request

artifactVars == <<secret, links, linkTime, slots, download>>

Sizes == 0..(ProxyBytes + 1)

NoDownload ==
  [step |-> "idle", size |-> 0, sum |-> NoContent, offset |-> 0,
   pure |-> NoContent, pending |-> 0, sent |-> 0, requests |-> 0, eof |-> FALSE]

ArtifactInit ==
  /\ secret = FALSE /\ links = {} /\ linkTime = 0 /\ slots = 0
  /\ download = [d \in Download |-> NoDownload]

Keep(d, job) == download' = [download EXCEPT ![d] = job]

(* It is published whole, by a link(2) that replaces no other.             *)
MakeSecret == secret' = TRUE

(* The result of a tool names an artifact that is still kept.              *)
SignLink(e) ==
  /\ e > linkTime
  /\ MakeSecret /\ links' = links \cup {e}
  /\ UNCHANGED <<linkTime, slots, download>>

Tick ==
  /\ linkTime < LastStep /\ linkTime' = linkTime + 1
  /\ UNCHANGED <<secret, links, slots, download>>

SlotFree == slots < NodeDownloads

(* The link is checked before anything is asked of the node.               *)
OpenLink(d, e) ==
  /\ download[d].step = "idle"
  /\ secret /\ e \in links /\ linkTime <= e /\ SlotFree
  /\ slots' = slots + 1
  /\ Keep(d, [NoDownload EXCEPT !.step = "first"])
  /\ UNCHANGED <<secret, links, linkTime>>

(* What a node may answer to a request for the bytes after an offset, if   *)
(* it names the artifact, the expiry and the offset that were asked for:   *)
(* any other answer is refused outright.                                   *)
Chunks ==
  [sum : ArtifactContent, size : Sizes, next : Sizes, eof : BOOLEAN, bytes : 0..(ChunkBytes + 1),
   of : ArtifactContent]

(* The digest is that of the first chunk, the offsets advance, and the     *)
(* mark of the end stands where the end is.                                *)
Valid(chunk, d, sum) ==
  /\ sum = NoContent \/ chunk.sum = sum
  /\ chunk.next >= download[d].offset /\ chunk.next <= chunk.size
  /\ ~chunk.eof => chunk.next > download[d].offset
  /\ chunk.eof <=> chunk.next = chunk.size

Decodes(chunk, d) ==
  chunk.bytes <= ChunkBytes /\ chunk.next = download[d].offset + chunk.bytes

(* What all bytes read so far belong to: one content, or a mixture.        *)
Mixed(was, chunk) ==
  IF chunk.bytes = 0 \/ was = chunk.of THEN was
  ELSE IF was = NoContent THEN chunk.of ELSE "mixed"

(* However the handler ends, it gives the node's slot back.                *)
End(d, how) ==
  /\ Keep(d, [download[d] EXCEPT !.step = how])
  /\ slots' = slots - 1
  /\ UNCHANGED <<secret, links, linkTime>>

FirstChunk(d, chunk) ==
  /\ download[d].step = "first"
  /\ Valid(chunk, d, NoContent) /\ chunk.size <= ProxyBytes /\ Decodes(chunk, d)
  /\ Keep(d, [download[d] EXCEPT
       !.step = "streaming", !.size = chunk.size, !.sum = chunk.sum, !.offset = chunk.next,
       !.pure = Mixed(NoContent, chunk), !.pending = chunk.bytes, !.requests = 1,
       !.eof = chunk.eof])
  /\ UNCHANGED <<secret, links, linkTime, slots>>

(* The node is away or late, or its answer is refused: an error answer.    *)
RefuseDownload(d) ==
  /\ download[d].step = "first"
  /\ End(d, "refused")

\* Mutant: every chunk is sent as it comes.
NextChunkSent(d, chunk) ==
  /\ download[d].step = "streaming" /\ ~download[d].eof
  /\ download[d].requests < ChunkRequests
  /\ chunk.size = download[d].size /\ Valid(chunk, d, download[d].sum) /\ Decodes(chunk, d)
  /\ Keep(d, [download[d] EXCEPT
       !.offset = chunk.next, !.pure = Mixed(@, chunk), !.requests = @ + 1, !.eof = chunk.eof,
       !.sent = @ + download[d].pending + chunk.bytes, !.pending = 0])
  /\ UNCHANGED <<secret, links, linkTime, slots>>

(* The chunk before goes out when this one has been verified.              *)
NextChunk(d, chunk) ==
  /\ download[d].step = "streaming" /\ ~download[d].eof
  /\ download[d].requests < ChunkRequests
  /\ chunk.size = download[d].size /\ Valid(chunk, d, download[d].sum) /\ Decodes(chunk, d)
  /\ Keep(d, [download[d] EXCEPT
       !.offset = chunk.next, !.pure = Mixed(@, chunk), !.requests = @ + 1, !.eof = chunk.eof,
       !.sent = @ + download[d].pending, !.pending = chunk.bytes])
  /\ UNCHANGED <<secret, links, linkTime, slots>>

(* Too many requests, a chunk that is late, lost or refused, or a client   *)
(* that is gone: the connection is aborted.                                *)
Abort(d) ==
  /\ download[d].step = "streaming" /\ ~download[d].eof
  /\ End(d, "aborted")

SumAgrees(d) ==
  /\ download[d].offset = download[d].size
  /\ download[d].size > 0 => download[d].pure = download[d].sum

Finish(d) ==
  /\ download[d].step = "streaming" /\ download[d].eof
  /\ IF SumAgrees(d)
     THEN /\ Keep(d, [download[d] EXCEPT !.step = "complete", !.pending = 0,
                                         !.sent = @ + download[d].pending])
          /\ slots' = slots - 1
          /\ UNCHANGED <<secret, links, linkTime>>
     ELSE End(d, "aborted")

(* The request is over for the server; its goroutine serves another.       *)
NewRequest(d) ==
  /\ download[d].step \in {"refused", "aborted", "complete"}
  /\ Keep(d, NoDownload)
  /\ UNCHANGED <<secret, links, linkTime, slots>>

(* A crash ends every download; the secret and the links stay good.        *)
RestartServer ==
  /\ slots' = 0
  /\ download' = [d \in Download |->
       IF download[d].step \in {"first", "streaming"}
       THEN [download[d] EXCEPT !.step = "aborted"] ELSE download[d]]
  /\ UNCHANGED <<secret, links, linkTime>>

ArtifactNext ==
  \/ \E e \in 1..LastStep : SignLink(e)
  \/ Tick \/ RestartServer
  \/ \E d \in Download :
       \/ \E e \in links : OpenLink(d, e)
       \/ \E chunk \in Chunks : FirstChunk(d, chunk) \/ NextChunk(d, chunk)
       \/ RefuseDownload(d) \/ Abort(d) \/ Finish(d) \/ NewRequest(d)

ArtifactSpec == ArtifactInit /\ [][ArtifactNext]_artifactVars
-----------------------------------------------------------------------------------
Running == {d \in Download : download[d].step \in {"first", "streaming"}}

(* The values the variables take; the node's slots are those of its        *)
(* downloads under way, none of them lost by any way a handler ends.       *)
ArtifactTypeOK ==
  /\ secret \in BOOLEAN /\ links \subseteq 1..LastStep /\ linkTime \in 0..LastStep
  /\ \A d \in Download :
       /\ download[d].step \in {"idle", "first", "streaming", "refused", "aborted", "complete"}
       /\ download[d].size <= ProxyBytes /\ download[d].requests <= ChunkRequests
  /\ slots = Cardinality(Running) /\ slots <= NodeDownloads

(* Whoever gets as many bytes as were announced gets the content that the  *)
(* digest is of: an artifact that changed, or a node that mixed two, never *)
(* shows as a complete body (artifacts.go, servePublicArtifact).           *)
WholeOrAborted ==
  \A d \in Download :
    (download[d].step \in {"streaming", "aborted", "complete"} /\ download[d].size > 0
       /\ download[d].sent >= download[d].size)
      => download[d].pure = download[d].sum
===================================================================================
