---------------------------- MODULE MCReplyReader ----------------------------
(* ReplyReader alone, on ReplyData.                                           *)
EXTENDS ReplyReader

CONSTANTS Ints, Sizes
INSTANCE ReplyData
=============================================================================
