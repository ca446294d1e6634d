---------------------------------- MODULE MCP ----------------------------------
(***************************************************************************)
(* MCPHandler of src/src/protocols/mcp/handler.ts: the verdict on a request *)
(* and the stream of a payload in numbered chunks. The network is external: *)
(* it loses, repeats and reorders chunks.                                  *)
(***************************************************************************)
EXTENDS Integers, Sequences, FiniteSets, SequencesExt

CONSTANTS
    Bytes,              \* the values of a byte that the properties tell apart
    MaxBytes,           \* bound on the length of a payload
    CHUNK_SIZE,         \* CHUNK_SIZE_BYTES
    MAX_CONTEXT_TOKENS,
    STREAMING_THRESHOLD \* also COMPRESSION_THRESHOLD_BYTES

ASSUME MCPAssumption ==
    /\ MaxBytes \in Nat /\ CHUNK_SIZE \in Nat \ {0}
    /\ MAX_CONTEXT_TOKENS \in Nat /\ STREAMING_THRESHOLD \in Nat

VARIABLES
    payload,    \* the payload of stream()
    chunks,     \* the chunks it has made
    delivered,  \* those that reached the receiver
    mcpRequest, \* the last request handled, and
    mcpAnswer   \* its response

mcpVars == <<payload, chunks, delivered, mcpRequest, mcpAnswer>>

(* A message: whether it is JSON, whether it is a JSON-RPC request, its    *)
(* method, whether the params are those of context/submit, lack one of     *)
(* their fields or have no content, and the tokens and the content's length.*)
McpRequests ==
    [json : BOOLEAN, rpc : BOOLEAN, id : {0, 7},
     method : {"context/submit", "context/ack", "context/error", "other"},
     params : {"complete", "partial", "no content"}, context_tokens : {MAX_CONTEXT_TOKENS, MAX_CONTEXT_TOKENS + 1},
     length : {STREAMING_THRESHOLD, STREAMING_THRESHOLD + 1}]

TotalChunks == (Len(payload) + CHUNK_SIZE - 1) \div CHUNK_SIZE

MCPInit ==
    /\ payload \in BoundedSeq(Bytes, MaxBytes)
    /\ chunks = <<>> /\ delivered = {}
    /\ mcpRequest = [id |-> 0] /\ mcpAnswer = [id |-> 0, error |-> "none"]

-----------------------------------------------------------------------------
\* Mutant: the chunks overlap by a byte.
OverlappingSlice(i) ==
    SubSeq(payload, IF i = 0 THEN 1 ELSE i * CHUNK_SIZE, (i + 1) * CHUNK_SIZE)
Slice(i) == SubSeq(payload, i * CHUNK_SIZE + 1, (i + 1) * CHUNK_SIZE)

\* One turn of the loop of stream(). The last slice ends with the payload.
StreamChunk ==
    /\ Len(chunks) < TotalChunks
    /\ LET i == Len(chunks)
           slice == IF (i + 1) * CHUNK_SIZE > Len(payload)
                    THEN SubSeq(payload, i * CHUNK_SIZE + 1, Len(payload)) ELSE Slice(i)
       IN  chunks' = Append(chunks, [sequence |-> i, total_chunks |-> TotalChunks, data |-> slice])
    /\ UNCHANGED <<payload, delivered, mcpRequest, mcpAnswer>>

\* stream() has returned; external.
DeliverChunk(c) ==
    /\ Len(chunks) = TotalChunks
    /\ delivered' = delivered \cup {c}
    /\ UNCHANGED <<payload, chunks, mcpRequest, mcpAnswer>>

-----------------------------------------------------------------------------
\* parse(): only context/submit has its parameters looked at.
ParseError(r) ==
    CASE ~r.json -> "PARSE_ERROR"
      [] r.json /\ ~r.rpc -> "INVALID_REQUEST"
      [] r.json /\ r.rpc /\ r.method = "other" -> "METHOD_NOT_FOUND"
      [] r.json /\ r.rpc /\ r.method = "context/submit" /\ r.params # "complete" -> "SCHEMA_VALIDATION_FAILED"
      [] r.json /\ r.rpc /\ r.method = "context/submit" /\ r.params = "complete"
            /\ r.context_tokens > MAX_CONTEXT_TOKENS -> "PAYLOAD_TOO_LARGE"
      [] OTHER -> "none"

\* buildError(): a request that could not be read is answered with id 0.
ErrorId(r) == IF r.json /\ r.rpc THEN r.id ELSE 0

\* handle(): Buffer.from(undefined) throws where the parameters have no content.
Handle(r) ==
    /\ mcpRequest' = r
    /\ mcpAnswer' =
           IF ParseError(r) # "none" THEN [id |-> ErrorId(r), error |-> ParseError(r)]
           ELSE IF r.params = "no content" THEN [id |-> 0, error |-> "TypeError"]
           ELSE [id |-> r.id, error |-> "none", compressed |-> r.length > STREAMING_THRESHOLD,
                 streaming |-> r.length > STREAMING_THRESHOLD]
    /\ UNCHANGED <<payload, chunks, delivered>>

MCPStreamNext == StreamChunk \/ \E c \in ToSet(chunks) : DeliverChunk(c)
MCPHandleNext == \E r \in McpRequests : Handle(r)

MCPNext == MCPStreamNext \/ MCPHandleNext

MCPSpec == MCPInit /\ [][MCPNext]_mcpVars

-----------------------------------------------------------------------------
MCPTypeOK ==
    /\ payload \in BoundedSeq(Bytes, MaxBytes)
    /\ delivered \subseteq ToSet(chunks) /\ Len(chunks) <= TotalChunks
    /\ mcpAnswer.id \in {0, 7}

(* A receiver that has a chunk of every number below total_chunks has the  *)
(* whole payload: put in order, the chunks that arrived are it, no byte     *)
(* missing or twice, and none is longer than the chunk size.               *)
StreamIsComplete ==
    \A c \in delivered :
        Cardinality({d.sequence : d \in delivered}) = c.total_chunks =>
            /\ FlattenSeq([i \in 1..c.total_chunks |->
                   (CHOOSE d \in delivered : d.sequence = i - 1).data]) = payload
            /\ \A d \in delivered : Len(d.data) \in 1..CHUNK_SIZE

(* A context that is accepted has its parameters and at most the maximum   *)
(* of tokens if it was submitted, and a request that could be read is      *)
(* answered under its own id, by a result or an error, unless handling it  *)
(* throws: that only an acknowledgement or error without content does.     *)
AnswersMatch ==
    mcpRequest # [id |-> 0] =>
        /\ mcpAnswer.error = "none" /\ mcpRequest.method = "context/submit" =>
               mcpRequest.params = "complete" /\ mcpRequest.context_tokens <= MAX_CONTEXT_TOKENS
        /\ mcpAnswer.error = "TypeError" =>
               mcpRequest.method \in {"context/ack", "context/error"} /\ mcpRequest.params = "no content"
        /\ mcpRequest.json /\ mcpRequest.rpc /\ mcpAnswer.error # "TypeError" =>
               mcpAnswer.id = mcpRequest.id

(* What always holds of the stream and the answers.                        *)
MCPInv ==
    MCPTypeOK /\ StreamIsComplete /\ AnswersMatch
=============================================================================
