-------------------------- MODULE MCLoaderSession --------------------------
(***************************************************************************)
(* Instances of LoaderSession for TLC: the commands of cmd/flasher that    *)
(* talk to a chip, each as the operations its function calls, in order.    *)
(***************************************************************************)
EXTENDS LoaderSession

cmdFlash == <<"connect", "tryStub", "attach", "params", "baud", "write", "end", "reset">>
\* `--baud 115200`: the rate is left as it is.
cmdFlashROMBaud == <<"connect", "tryStub", "attach", "params", "write", "end", "reset">>
cmdErase == <<"connect", "needStub", "erase", "reset">>
cmdRead  == <<"connect", "needStub", "read", "reset">>
cmdChipInfo == <<"connect", "identify", "tryInfo", "reset">>
cmdInfo  == <<"connect", "identify", "info", "reset">>

CLI == {cmdFlash, cmdFlashROMBaud, cmdErase, cmdRead, cmdChipInfo, cmdInfo}
\* What the theorems about a session assume of its front-end, and one that fails it.
ASSUME CLIAssumption == \A s \in CLI : CommandLine(s)

FlashOnly == {cmdFlash}

\* A long-lived front-end of the library, that reconnects to a chip it has
\* used the stub of.
Reconnect == {<<"connect", "needStub", "reset", "connect", "erase">>}
=============================================================================
