---- MODULE MCPlayground ----
(* The instance of the chat page for TLC. *)
EXTENDS Playground

\* Streams and single responses of text, the tasks of images and videos, and a
\* stream in the video mode (a custom request body may ask for one).
UserSends == {<<"text", "sse">>, <<"text", "post">>, <<"image", "post">>,
              <<"video", "post">>, <<"video", "sse">>}
====
