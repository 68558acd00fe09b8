------------------------------- MODULE MCVaryCase -------------------------------
(* Two commands of a build that write to the same directory or to ones beside each *)
(* other, three deep at most, with absolute and relative paths, on disks on which  *)
(* none, some or all of the directories are there, or something else in their place. *)
EXTENDS VaryCase

Old == File(<< << "X(" >> >>)

MCOutput(absolute, names) == [ absolute |-> absolute, names |-> names ]
MCJob(output, text, case) == [ output |-> output, input |-> text, case |-> case ]

MCInputs == { << "X(", "a", "_", "b", ")", "X(", "_", "b", "a", "_", ")" >> }

MCOutputs == { MCOutput(TRUE, << "gen", "binding", "kind" >>),
               MCOutput(TRUE, << "gen", "binding", "type" >>),
               MCOutput(TRUE, << "gen", "syntax", "kind" >>),
               MCOutput(TRUE, << "out" >>),
               MCOutput(FALSE, << "gen", "syntax", "type" >>),
               MCOutput(FALSE, << "type" >>) }

MCJobs ==
    { MCJob(output, text, case) : output \in MCOutputs, text \in MCInputs,
                                  case \in { "uppercamel" } }
    \cup { MCJob(MCOutput(TRUE, << "gen", "type" >>), text, case) :
              text \in MCInputs \cup { <<>>, << "X(", "a" >>, << "X(", "a", "X(", ")" >> },
              case \in { "camel", "uppercamel", "kebab" } }

Here == << >>
Tree(dirs, files) == [ path \in dirs \cup files |-> IF path \in dirs THEN Directory ELSE Old ]

MCDisks ==
    { Tree({Here}, {}),
      Tree({Here}, { << "gen" >> }),
      Tree({Here, << "gen" >>}, {}),
      Tree({Here, << "gen" >>, << "gen", "binding" >>}, { << "gen", "binding", "kind" >> }),
      Tree({Here, << "gen" >>}, { << "gen", "binding" >>, << "gen", "type" >> }) }
================================================================================
