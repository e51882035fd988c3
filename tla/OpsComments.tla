---------------------------- MODULE OpsComments ----------------------------
(* The commands people give in comments (pkg/opscomments/comments.go and   *)
(* the older parser of pkg/provider/provider.go).                          *)
(*                                                                         *)
(* A comment is a sequence of lines; a line holds at most one command,     *)
(* with the prefix it is written with, and the words after it. "quoted"    *)
(* says that the command is not what the line begins with: the regular     *)
(* expressions are anchored to the line, the searches for the words that   *)
(* follow a command are not.                                               *)
EXTENDS Integers, Sequences, SequencesExt, FiniteSets

\* A word is <<kind, value>>: "name" of a definition, "key" of a key=value
\* pair, "branch" or "tag" (branch:x, tag:x), "colon" for any other word with
\* a colon, "sha" for a commit or a prefix of it, which names one commit.
NoName == <<>>

Line(says, words) == [says |-> says, words |-> words, prefix |-> "/", quoted |-> FALSE]

\* Some line is the command, with words after it (named) or alone.
Says(comment, prefix, command, named) ==
  \E i \in DOMAIN comment : /\ comment[i].says = command
                            /\ comment[i].prefix = prefix
                            /\ ~comment[i].quoted
                            /\ named = (comment[i].words # <<>>)

Precedence ==
  <<[command |-> "retest",     named |-> FALSE, type |-> "retest-all-comment"],
    [command |-> "retest",     named |-> TRUE,  type |-> "retest-comment"],
    [command |-> "test",       named |-> FALSE, type |-> "test-all-comment"],
    [command |-> "test",       named |-> TRUE,  type |-> "test-comment"],
    [command |-> "ok-to-test", named |-> FALSE, type |-> "ok-to-test-comment"],
    [command |-> "ok-to-test", named |-> TRUE,  type |-> "ok-to-test-comment"],
    [command |-> "cancel",     named |-> FALSE, type |-> "cancel-all-comment"],
    [command |-> "cancel",     named |-> TRUE,  type |-> "cancel-comment"]>>

CommentEventType(comment, prefix) ==
  LET i == SelectInSeq(Precedence, LAMBDA o : Says(comment, prefix, o.command, o.named))
  IN  IF i = 0 THEN "no-ops-comment" ELSE Precedence[i].type

SaysAny(comment, prefix, command) == \E named \in BOOLEAN : Says(comment, prefix, command, named)

IsOkToTestComment(comment, prefix) == SaysAny(comment, prefix, "ok-to-test")
IsTestRetestComment(comment, prefix) ==
  SaysAny(comment, prefix, "test") \/ SaysAny(comment, prefix, "retest")
IsCancelComment(comment, prefix) == SaysAny(comment, prefix, "cancel")

\* The commit an /ok-to-test names, NoName when it names none.
GetSHAFromOkToTestComment(comment, prefix) ==
  LET is(line) == line.says = "ok-to-test" /\ line.prefix = prefix /\ ~line.quoted
      i        == SelectInSeq(comment, is)
  IN  IF i = 0 \/ comment[i].words = <<>> THEN NoName ELSE Head(comment[i].words)

\* Where the text of a command is first found, at the start of a line or not.
FirstMention(comment, prefix, command) ==
  SelectInSeq(comment, LAMBDA line : line.says = command /\ line.prefix = prefix)

Named(word) == IF word[1] = "key" THEN NoName ELSE word

getNameFromComment(comment, prefix, command) ==
  LET i == FirstMention(comment, prefix, command)
  IN  IF i = 0 \/ comment[i].words = <<>> THEN NoName ELSE Named(Head(comment[i].words))

IsAnyOpsEventType(type) ==
  type \in {Precedence[i].type : i \in DOMAIN Precedence} \cup {"on-comment"}

\* The fields of the event a comment sets.
OfType(event, type, comment, prefix) ==
  [event EXCEPT
     !.type = type,
     !.comment = comment,
     !.test = CASE type = "retest-comment" -> getNameFromComment(comment, prefix, "retest")
                [] type = "test-comment"   -> getNameFromComment(comment, prefix, "test")
                [] OTHER -> @,
     !.cancel = @ \/ type \in {"cancel-all-comment", "cancel-comment"},
     !.cancelName = IF type = "cancel-comment" THEN getNameFromComment(comment, prefix, "cancel") ELSE @]

SetEventTypeAndTargetPR(event, comment, prefix) ==
  OfType(event, CommentEventType(comment, prefix), comment, prefix)

(***************************************************************************)
(* Comments on a commit also name a branch or a tag.                       *)
(***************************************************************************)
\* All the words of the comment from a line on.
WordsFrom(comment, i) ==
  LET rest == SubSeq(comment, i, Len(comment))
  IN  FlattenSeq([j \in DOMAIN rest |-> rest[j].words])

FirstOf(words, kind) ==
  LET i == SelectInSeq(words, LAMBDA w : w[1] = kind)
  IN  IF i = 0 THEN "" ELSE words[i][2]

\* [name, branch, tag], or an error when a word has a colon and none is a
\* branch or a tag. A name counts only before another word; alone are the
\* words of the command's own line, words all that follow.
BranchOrTag(words, alone, tag, colon) ==
  [error  |-> colon # 0 /\ \A i \in DOMAIN words : words[i][1] \notin {"branch", "tag"},
   name   |-> CASE colon = 0 -> IF alone = <<>> THEN NoName ELSE Named(Head(alone))
                [] colon > 1 -> Named(Head(words))
                [] OTHER     -> NoName,
   tag    |-> tag,
   branch |-> IF tag = "" THEN FirstOf(words, "branch") ELSE ""]

WithColon(words) == SelectInSeq(words, LAMBDA w : w[1] \in {"branch", "tag", "colon"})

FromLine(comment, first, words) ==
  BranchOrTag(words, comment[first].words, FirstOf(words, "tag"), WithColon(words))

NameBranchOrTag(comment, prefix, command) ==
  LET first == FirstMention(comment, prefix, command)
  IN  FromLine(comment, first, WordsFrom(comment, first))

GetPipelineRunAndBranchOrTagNameFromTestComment(comment, prefix) ==
  NameBranchOrTag(comment, prefix,
    IF CommentEventType(comment, prefix) \in {"test-comment", "test-all-comment"}
      THEN "test" ELSE "retest")
GetPipelineRunAndBranchOrTagNameFromCancelComment(comment, prefix) ==
  NameBranchOrTag(comment, prefix, "cancel")
=============================================================================
