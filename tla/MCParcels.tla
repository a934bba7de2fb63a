------------------------------ MODULE MCParcels ------------------------------
(* What is written and what is read, in one run: a behaviour is that of       *)
(* ParcelWriter with a transaction of WriterData, or that of ReplyReader with *)
(* a reply of ReplyData.                                                      *)
EXTENDS MCParcelWriter

VARIABLES phase, goal, reply, replyPosition, target, readers, readerExited, answer
readerVars == <<phase, goal, reply, replyPosition, target, readers, readerExited, answer>>

Replied == {"values", "flat", "nest", "arrays", "holder", "call", "invoke", "exits"}
D == INSTANCE ReplyData WITH
  Message <- Replied, Word <- 6, String16 <- 6, Other <- 8, Ints <- {0, 1, 3}, Sizes <- {0, 1, 3}
ReadParcel == D!MCParcel
ReadTable  == D!MCTable
ReadItems  == D!MCItems
ReadKind   == D!MCKind
ReadParams == D!MCParams
ReadKnown  == D!MCKnown
ReadReplies == D!MCReplies
Reader == INSTANCE ReplyReader WITH
  Parcel <- ReadParcel, table <- ReadTable, items <- ReadItems, kind <- ReadKind, params <- ReadParams,
  Message <- Replied, Known <- ReadKnown, Replies <- ReadReplies, Word <- 6,
  position <- replyPosition, exited <- readerExited
ASSUME Reader!ReaderAssumption /\ Reader!RepliesAssumption

NothingWritten ==
  /\ parcel = <<>> /\ position = 0 /\ exited = TRUE
  /\ writers = <<Writer("loop", <<>>, FALSE, 0)>>
NothingRead ==
  /\ phase = "done" /\ goal = [tx |-> "values", var |-> 1, member |-> <<>>]
  /\ reply = <<>> /\ replyPosition = 0 /\ target = <<>> /\ readerExited = FALSE /\ answer = <<>>
  /\ readers = <<Reader!Reader("values", 1, 1, FALSE)>>

MCInit == (Init /\ NothingRead) \/ (Reader!Init /\ NothingWritten)
MCNext == \/ Next /\ UNCHANGED readerVars
          \/ Reader!Next /\ UNCHANGED vars
MCSpec == MCInit /\ [][MCNext]_<<vars, readerVars>>

-----------------------------------------------------------------------------
(* The properties of ReplyReader, by the names that they have there.          *)
InStep       == Reader!InStep
ItemCopied   == Reader!ItemCopied
MemberCopied == Reader!MemberCopied
=============================================================================
