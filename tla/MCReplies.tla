---------------------------- MODULE MCReplies -----------------------------
(* A small instance of Replies: a question and a sad word about a goal,    *)
(* one post of another bot, and one LLM slot for them.                     *)
EXTENDS Replies

CONSTANTS g1, g2, bot, hyper, calm
===========================================================================
