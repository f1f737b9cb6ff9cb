-------------------------------- MODULE MCDap --------------------------------
(* Instances of OrvDap for TLC: programs of up to four statements with calls *)
(* of depth two, ending well, in an error, or not started for diagnostics.   *)
EXTENDS OrvDap

Plain(depths, end) == [kind |-> "plain", depths |-> depths, end |-> end]
Server == [kind |-> "server", depths |-> <<1>>, end |-> "ok"]

SmallPrograms == {Plain(<<1, 2, 1, 0>>, "ok"), Plain(<<0, 1, 1>>, "error"),
                  Plain(<<0>>, "ok"), Plain(<<>>, "diagnostics"), Server}
ServerOnly == {Server}
==============================================================================
