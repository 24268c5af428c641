---------------------------- MODULE MCSkillTree ----------------------------
(***************************************************************************)
(* SkillAdvice with three root skills, the first with two sub skills, and  *)
(* a course for each sub skill.                                            *)
(***************************************************************************)
EXTENDS SkillAdvice

MCParent == [A |-> Nothing, B |-> Nothing, C |-> Nothing, a1 |-> "A", a2 |-> "A", b1 |-> "B"]
MCLinks == {<<"A", "B">>, <<"B", "C">>, <<"C", "A">>, <<"A", "C">>, <<"a1", "a2">>}
MCIds == <<"A", "B", "C", "ada", "bash", "cobol">>
MCTeaches == [ada |-> {"a1"}, bash |-> {"a2"}, cobol |-> {"b1"}]
MCLevels == [ada |-> 1, bash |-> NoLevel, cobol |-> NoLevel]
MCTracks == [starter |-> {"bash"}]
MCLearners == [character : {0, 2}, preference : {"breit", "tief"}, planned : {<<>>, <<"ada">>, <<"cobol", "bash">>},
               tracks : {<<"starter">>}, xp : {{}, {"b1"}}, completed : {{}, {"ada"}}]
=============================================================================
