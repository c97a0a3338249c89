-------------------------------- MODULE Ollama --------------------------------
(***************************************************************************)
(* The Ollama client of internal/ollama and the executor over it           *)
(* (internal/worker/executor.go): what each call makes of what the backend *)
(* answers.                                                                *)
(*                                                                         *)
(* An answer is [kind, ...]: "refused" (no HTTP answer), "expired" (the    *)
(* caller's context ended first), "status" (not 200, with the status and   *)
(* whether the text says the model is missing) or "body" (200 with its     *)
(* content).  A stream is a sequence of lines; after the last one the body *)
(* ends, or fails when its last line is "cut".  The result of a call is    *)
(* its value or the code of its JobError.                                  *)
(***************************************************************************)
EXTENDS Integers, Sequences, SequencesExt

CodeUnreachable == "ollama_unreachable"
CodeModelNotFound == "model_not_found"
CodeTimeout == "timeout"
CodeInvalidRequest == "invalid_request"
CodeOllamaError == "ollama_error"
Codes == {CodeUnreachable, CodeModelNotFound, CodeTimeout, CodeInvalidRequest, CodeOllamaError}

Ok(value) == [err |-> "", value |-> value]
Fail(code) == [err |-> code, value |-> {}]

transportError(kind) == IF kind = "expired" THEN CodeTimeout ELSE CodeUnreachable

errorFromMessage(missing) == IF missing THEN CodeModelNotFound ELSE CodeOllamaError

statusError(status, missing) ==
    CASE status = 404 -> CodeModelNotFound
      [] status = 400 -> CodeInvalidRequest
      [] OTHER -> errorFromMessage(missing)

\* The part every call shares: send the request, look at the status.
Do(answer) ==
    IF answer.kind \in {"refused", "expired"} THEN Fail(transportError(answer.kind))
    ELSE IF answer.kind = "status" THEN Fail(statusError(answer.status, answer.missing))
    ELSE Ok(answer.body)

\* A call that decodes the body; one that does not decode is "garbled".
Decoded(answer) == IF answer.kind = "garbled" THEN Fail(CodeOllamaError) ELSE Do(answer)

Version(answer) == Decoded(answer)

\* Entries without a name are left out.
ListModels(answer) == LET r == Decoded(answer) IN IF r.err = "" THEN Ok(r.value \ {""}) ELSE r

\* Progress lines and lines that do not parse are skipped; the first error
\* line decides, and without one the end of the stream.
Pull(answer) ==
    LET r == Do(answer)
        lines == r.value
        errors == {i \in DOMAIN lines : lines[i] \in {"error", "missing", "cut"}}
        first == lines[CHOOSE i \in errors : \A j \in errors : i <= j] IN
    IF r.err # "" \/ errors = {} THEN r
    ELSE IF first = "cut" THEN Fail(transportError("cut"))
    ELSE Fail(errorFromMessage(first = "missing"))

\* There is nothing to unload of a model that is not there.
Unload(answer) ==
    LET r == Do(answer) IN
    IF answer.kind = "status" /\ r.err = CodeModelNotFound THEN Ok({}) ELSE r

-----------------------------------------------------------------------------
(* ChatStream, one line of the stream at a time.  A job's context ends only *)
(* with its connection, after which nobody reads what it gives.             *)

\* What a line has the client do: emit a chunk, stop with a result, or go on.
\* "delta" has text, "calls" tool calls; "done" ends the answer, and so does
\* "length", with that reason.
ChatLine(line) ==
    LET stop(err) == [emit |-> FALSE, stop |-> TRUE, err |-> err] IN
    CASE line = "blank" -> [emit |-> FALSE, stop |-> FALSE, err |-> ""]
      [] line = "garbled" -> stop(CodeOllamaError)
      [] line \in {"error", "missing"} -> stop(errorFromMessage(line = "missing"))
      [] line = "cut" -> stop(transportError("cut"))
      [] line = "eof" -> stop(CodeOllamaError)
      [] line \in {"delta", "calls"} -> [emit |-> TRUE, stop |-> FALSE, err |-> ""]
      [] line \in {"done", "length"} -> stop("")

\* A tool call decides; otherwise Ollama's reason, "stop" when it gives none.
finishReason(calls, doneReason) ==
    IF calls THEN "tool_calls" ELSE IF doneReason = "" THEN "stop" ELSE doneReason

=============================================================================
