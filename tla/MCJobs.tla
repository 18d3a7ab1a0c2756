------------------------------- MODULE MCJobs -------------------------------
EXTENDS Jobs

\* Seven lines of several widths, two that are short and end without the end of a line, one
\* long line without an end, one that is empty, one of another code.
Narrow == <<2, 2, 2, 1>>
Wide == <<9, 2, 3, 4>>
SmallDirectory ==
    << [code |-> 1, date |-> 5, ended |-> TRUE, lines |-> <<Narrow, Wide, Narrow, Narrow, Wide, Narrow, Narrow>>],
       [code |-> 1, date |-> 6, ended |-> FALSE, lines |-> <<Wide, Narrow>>],
       [code |-> 2, date |-> 6, ended |-> FALSE, lines |-> <<Narrow, Narrow, Narrow, Narrow, Narrow, <<1, 1>>>>],
       [code |-> 3, date |-> 5, ended |-> TRUE, lines |-> <<>>] >>

SmallJobs ==
    { [codes |-> {1}, dates |-> {<<1, 5>>}, cols |-> <<<<1, 1>>, <<2, 3>>>>, oneZip |-> TRUE],
      [codes |-> {1, 2}, dates |-> {<<6, 6>>, <<5, 5>>}, cols |-> <<<<2, 3>>>>, oneZip |-> FALSE],
      [codes |-> {}, dates |-> {<<5, 9>>}, cols |-> <<<<1, 2>>, <<2, 4>>>>, oneZip |-> TRUE],
      [codes |-> {2}, dates |-> {}, cols |-> <<<<1, 1>>>>, oneZip |-> FALSE] }

\* An order of each kind that Outcome tells apart.
SmallBook == << [wth |-> FALSE, qty |-> 1200, today |-> TRUE], [wth |-> TRUE, qty |-> 1200, today |-> TRUE],
                [wth |-> FALSE, qty |-> 600, today |-> FALSE] >>

LogLevels == 0 .. 8
=============================================================================
