------------------------------ MODULE MCInputs ------------------------------
(* FileUrls and AiAnswers, which share nothing: a behaviour is of one of them. *)
EXTENDS FileUrls, AiAnswers

CONSTANTS Cdn, Bucket, Elsewhere, Mina, Juno, Stranger

Base(path) == [host |-> Cdn, path |-> path]
Settings(bases) == [base : bases, bucket : {Bucket}, located : BOOLEAN, complete : BOOLEAN]
MCConfigs ==
  {c \in Settings({Absent, Base(<<>>), Base(<<Slash>>)}) : c.complete => c.located} \cup
  {c \in Settings({Base(<<Dir("files")>>), Base(<<Dir("assignments")>>)}) : c.complete /\ c.located}
MCForeignUrls == {[host |-> Elsewhere, path |-> <<Dir("assignments"), [upload |-> 9, name |-> "safe"]>>]}

MCRosters == {<<Mina, Juno>>, <<Juno>>}
MCEntries ==
  [nickname : Texts, score : {Junk, -1, 79, 139, 150, 202},
   types : {Junk, <<"executor">>, <<"other", "questioner", "questioner", "executor", "initiator">>}, reason : {Junk}]
MCMemberReplies == {<<>>} \cup {<<e>> : e \in MCEntries} \cup {<<e, f>> : e \in MCEntries, f \in MCEntries}

FilesUntouched == issued = {} /\ stored = Absent /\ judged = Absent /\ config.base = Absent /\ config.complete

Init == FileInit /\ AiInit
Next ==
  \/ response = Null /\ FileNext /\ UNCHANGED aiVars
  \/ FilesUntouched /\ AiNext /\ UNCHANGED fileVars
Spec == Init /\ [][Next]_<<fileVars, aiVars>>
=============================================================================
