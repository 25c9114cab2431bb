------------------------------ MODULE MCLaunch ------------------------------
(* Three places for the emulator, two for the ROM, two programs in resources/ and
   one configured; one change of the disk during the launch. *)
EXTENDS Launch, TLC

MCKindsAt ==
    [path \in {"env/x16emu"} |-> {"nothing", "file", "program", "directory"}]
    @@ [path \in {"resources/x16emu"} |-> {"nothing", "file", "program"}]
    @@ [path \in {"../x16emu"} |-> {"nothing", "program"}]
    @@ [path \in {"env/rom.bin", "rom.bin", "env/app.prg", "resources/a.prg",
                  "resources/b.prg"} |-> {"nothing", "file"}]
    @@ [path \in {"srv"} |-> {"file", "directory"}]

MCPresent == DOMAIN MCKindsAt

MCResourcePrgs == <<"resources/a.prg", "resources/b.prg">>

Unset ==
    [name \in {"X16EMU_PATH", "X16ROM_PATH", "X16PRG_PATH", "X16FS_ROOT"} |-> None]

MCEnvironments ==
    {Unset,
     [Unset EXCEPT !["X16EMU_PATH"] = "env/x16emu", !["X16ROM_PATH"] = "env/rom.bin"],
     [Unset EXCEPT !["X16PRG_PATH"] = "env/app.prg", !["X16FS_ROOT"] = "srv"]}

\* create_session(), with everything, and boot_program.
MCRequests ==
    {[prg |-> None, load_addr |-> None, run |-> TRUE, startup_bp |-> None],
     [prg |-> "game.prg", load_addr |-> "801", run |-> FALSE, startup_bp |-> "c000"],
     [prg |-> None, load_addr |-> "801", run |-> TRUE, startup_bp |-> None]}
=============================================================================
