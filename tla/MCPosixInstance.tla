--------------------------- MODULE MCPosixInstance ---------------------------
(* Channels, objects, classifiers and a hash for PosixInstance.            *)
EXTENDS PosixInstance

\* One text has the token that stands for "not found"; two others collide.
SomeHash(text) ==
  CASE text = <<"background">> -> NotFound
    [] text = <<"w2">> -> <<"w1">>
    [] OTHER -> text

SomeWorkflows == {"w2"}
SomeContexts == {"background"}
SomeGivenContexts == {<<"w2", "write", "foreground">>}

SomeDefault == <<"w1", "no_op", "foreground">>

\* An object for a channel that comes later; two objects, the second a limiter that
\* lets nothing pass, whose tokens differ only if the operation type counts; an
\* object of a type that the stage cannot make; and a channel that no object can be
\* created for.
SomeRequests ==
  << <<1, 1, <<"write", "no_op">>, "noop", None>>,
     <<1, <<"w1", "no_op", "foreground">> >>,
     <<1, 1, <<"write", "no_op">>, "noop", None>>,
     <<1, 2, <<"read", "no_op">>, "drl", 0>>,
     <<1, 3, <<"no_op", "no_op">>, "other", None>>,
     <<2, <<"w1", "no_op", "background">> >>,
     <<2, 1, <<"write", "no_op">>, "noop", None>> >>

SomeTypes == {"write"}
ByWorkflow == {<<TRUE, FALSE, FALSE>>}
ByType == {<<TRUE, FALSE>>}
=============================================================================
