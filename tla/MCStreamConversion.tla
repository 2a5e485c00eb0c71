-------------------------- MODULE MCStreamConversion --------------------------
(***************************************************************************)
(* StreamConversion for TLC.                                               *)
(***************************************************************************)
EXTENDS StreamConversion

\* A chunk with nothing in it, and the chunks that providers send: the role,
\* mostly one delta, a finish reason alone or with the last delta.
Nothing == [role |-> FALSE, reasoning |-> FALSE, content |-> FALSE, finish |-> FALSE,
            calls |-> <<>>]
Call(call, named, args) == [call |-> call, named |-> named, args |-> args]

MCChunks ==
    { [Nothing EXCEPT !.role = TRUE],
      [Nothing EXCEPT !.role = TRUE, !.reasoning = TRUE],
      [Nothing EXCEPT !.reasoning = TRUE],
      [Nothing EXCEPT !.content = TRUE],
      [Nothing EXCEPT !.reasoning = TRUE, !.content = TRUE],
      [Nothing EXCEPT !.calls = <<Call(0, TRUE, FALSE)>>],
      [Nothing EXCEPT !.calls = <<Call(0, FALSE, TRUE)>>],
      [Nothing EXCEPT !.calls = <<Call(1, TRUE, TRUE)>>],
      [Nothing EXCEPT !.calls = <<Call(0, TRUE, TRUE), Call(1, TRUE, TRUE)>>],
      [Nothing EXCEPT !.content = TRUE, !.finish = TRUE],
      [Nothing EXCEPT !.finish = TRUE] }

\* Two anthropic blocks with two deltas each, and what is around them.
MCMaxMessages ==
    [s \in Sources |-> CASE s = "anthropic" -> 10
                         [] s \in {"chat", "google"} -> 5
                         [] OTHER -> 1]
=============================================================================
