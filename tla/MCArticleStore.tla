---------------------------- MODULE MCArticleStore ----------------------------
(* Two collectors and an operator over the Articles of three Sources.  The  *)
(* first Source publishes with and without external ids, and moves a story. *)
EXTENDS ArticleStore

Story(s, x, u, t, q) == [source |-> s, ext |-> x, url |-> u, title |-> t, quality |-> q]

MCPriority == [s \in Sources |-> s]

\* The first Source's story without an external id, with one, and moved; the
\* same story elsewhere under the same title and under another.
StoryFeed ==
  {Story(1, Absent, "u1", "t1", 0), Story(1, Absent, "u1", "t1", 1), Story(1, "e1", "u1", "t1", 0),
   Story(1, "e1", "u2", "t1", 0), Story(2, Absent, "u1", "t1", 0),
   Story(3, Absent, "u1", "t2", 1)}

MCRunTime == [c \in Collectors |-> IF c = CHOOSE d \in Collectors : TRUE THEN 1 ELSE 2]
=============================================================================
