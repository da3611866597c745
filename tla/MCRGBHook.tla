----------------------------- MODULE MCRGBHook ------------------------------
(* A small instance of RGBHook.                                             *)
EXTENDS RGBHook

\* The effects that breathe in the default rgb.yaml.
DefaultBreathing ==
    {"request_start", "thinking_content", "request_complete", "error"}

\* The default rgb.yaml, and one in which completions are not shown.
WithAndWithoutCompletion == {Events, Events \ {"request_complete"}}

=============================================================================
