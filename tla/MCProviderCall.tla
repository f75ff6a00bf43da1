---- MODULE MCProviderCall ----
(***************************************************************************)
(* ProviderCall with LLM_MAX_RETRIES = 4: the waits reach their limit of 8. *)
(***************************************************************************)
EXTENDS ProviderCall
====
