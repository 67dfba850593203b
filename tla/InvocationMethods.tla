------------------------- MODULE InvocationMethods -------------------------
(***************************************************************************)
(* What the methods of invocations/*.py make of the answers to their call  *)
(* (_backwards_invoke, a generator).  A method is a record: `each' says    *)
(* what it does with an answer and `over' what it does when the generator  *)
(* is exhausted.  The payload of the request is left out, and so is        *)
(* everything about an answer except that there is one.                    *)
(***************************************************************************)

(***************************************************************************)
(* The generator is handed to the caller of the method.                    *)
(***************************************************************************)
HandedOn == [each |-> "yield", over |-> "stop"]

(***************************************************************************)
(* The first answer is the result and the generator is dropped; without    *)
(* an answer the method raises.                                            *)
(***************************************************************************)
FirstAnswer == [each |-> "return", over |-> "raise"]

(***************************************************************************)
(* Like FirstAnswer, but the answer may turn out to be no good.            *)
(***************************************************************************)
FirstChecked == [each |-> "check", over |-> "raise"]

(***************************************************************************)
(* Every answer is merged into the result.                                 *)
(***************************************************************************)
AllMerged == [each |-> "merge", over |-> "return"]

Modes == {"streaming", "blocking"}

tool_invoke == HandedOn

chat_invoke(mode) == IF mode = "streaming" THEN HandedOn ELSE FirstAnswer
completion_invoke(mode) == IF mode = "streaming" THEN HandedOn ELSE FirstAnswer
workflow_invoke(mode) == IF mode = "streaming" THEN HandedOn ELSE FirstAnswer
fetch_app_get == FirstAnswer

llm_invoke(mode) == IF mode = "streaming" THEN HandedOn ELSE AllMerged
llm_structured_output_invoke(mode) ==
  IF mode = "streaming" THEN HandedOn ELSE AllMerged

\* A text that is short enough makes no call.
summary_invoke == FirstAnswer
text_embedding_invoke == FirstAnswer
text_embedding_invoke_multimodal == FirstAnswer
rerank_invoke == FirstAnswer
rerank_invoke_multimodal == FirstAnswer
speech2text_invoke == FirstAnswer
moderation_invoke == FirstAnswer
\* A generator around the generator, which it closes.
tts_invoke == HandedOn

question_classifier_invoke == FirstAnswer
parameter_extractor_invoke == FirstAnswer

\* The answer has the URL that the file is posted to.
file_upload == FirstChecked

storage_get == FirstAnswer
storage_exist == FirstAnswer
storage_delete == FirstChecked
\* Nothing follows the loop: without an answer the method just returns.
storage_set == [each |-> "check", over |-> "return"]

AllMethods ==
  {tool_invoke, fetch_app_get, summary_invoke, text_embedding_invoke,
   text_embedding_invoke_multimodal, rerank_invoke, rerank_invoke_multimodal,
   speech2text_invoke, moderation_invoke, tts_invoke,
   question_classifier_invoke, parameter_extractor_invoke, file_upload,
   storage_get, storage_exist, storage_delete, storage_set}
    \cup UNION {{chat_invoke(m), completion_invoke(m), workflow_invoke(m),
                 llm_invoke(m), llm_structured_output_invoke(m)} : m \in Modes}
=============================================================================
