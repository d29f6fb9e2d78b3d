------------------------------- MODULE MCExec -------------------------------
(* Programs, directories and arguments for the instances of Exec. *)
EXTENDS Exec

Section(a, o, n, b) == [addr |-> a, offset |-> o, size |-> n, bss |-> b]

File(name, size, elf, secs) ==
  [name |-> name, size |-> size, readable |-> TRUE, elf |-> elf, secs |-> secs]

\* Sections that follow one another, one of them longer than a page.
Whole == File("whole", 9, TRUE, <<Section(5, 1, 2, FALSE), Section(7, 3, 6, FALSE),
                                  Section(13, 9, 2, TRUE)>>)

\* Two short sections, each in a page of its own.
Gaps == File("gaps", 5, TRUE, <<Section(5, 1, 2, FALSE), Section(10, 3, 2, FALSE)>>)

\* A short section over the end of a page.
Over == File("over", 6, TRUE, <<Section(5, 1, 2, FALSE), Section(8, 3, 3, FALSE)>>)

\* A section that cannot be loaded after one that can.
Half == File("half", 4, TRUE, <<Section(5, 1, 2, FALSE), Section(0, 2, 2, FALSE)>>)

\* A program that cannot be loaded at all.
Low == File("low", 3, TRUE, <<Section(0, 1, 2, FALSE)>>)

\* A file that ends within its section, and one with nothing to load.
Cut == File("cut", 3, TRUE, <<Section(5, 1, 4, FALSE)>>)
Text == File("text", 3, FALSE, <<>>)
Bare == File("bare", 2, TRUE, <<>>)

Lost == [Text EXCEPT !.name = "lost", !.readable = FALSE]

MCDirectories == {<<Whole, Lost, Gaps>>, <<Over, Whole, Low>>, <<Lost, Half, Cut>>,
                  <<Text, Bare, Gaps>>}

MCPlacements == {<<0, 1, 2>>, <<3, 4, 5>>, <<4, 2, 0>>, <<1, 3, 5>>}

Arg(k, full, from) == [word |-> <<"arg", k>>, full |-> full, from |-> from]

MCArgvs == {<<>>, <<Arg(1, FALSE, -1), Arg(2, TRUE, -1)>>,
            <<Arg(2, TRUE, -1), Arg(1, FALSE, 9)>>,
            <<Arg(1, FALSE, -1), Arg(1, FALSE, -1), Arg(2, TRUE, -1)>>}

=============================================================================
