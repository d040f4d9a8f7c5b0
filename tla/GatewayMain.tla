---------------------------- MODULE GatewayMain ----------------------------
(***************************************************************************)
(* The tee_gateway binary on top of TeeGateway: one gateway, one key, one  *)
(* frame.  A behaviour is one of the binary, or one of an arbitrary user   *)
(* of the library, whose calls TeeGateway!Next allows in any order.        *)
(***************************************************************************)
EXTENDS TeeGateway

CONSTANTS
  SimulatedKey,  \* "simulated-key"
  MainFrame      \* the frame made of --prompt

ASSUME MainAssumption == SimulatedKey \in Tokens \ (NotUtf8 \cup {""}) /\ MainFrame \in Frame

VARIABLES
  main,       \* "library" for another user; else where main is
  simulate,   \* --simulate
  QWEN_API_KEY   \* the environment variable; "" when it is not set

mainVars == <<vars, main, simulate, QWEN_API_KEY>>

\* TeeGateway::new makes a gateway that answers by itself, new_live one that calls.
MainInit ==
  /\ Init
  /\ simulate \in BOOLEAN
  /\ QWEN_API_KEY \in Tokens
  /\ \/ main = "start" /\ live = ~simulate
     \/ main = "library" /\ simulate /\ QWEN_API_KEY = ""

-----------------------------------------------------------------------------
\* Mutant: the variable is read with its invalid bytes replaced.
api_keyLossy == IF simulate THEN SimulatedKey ELSE Lossy(QWEN_API_KEY)

\* A variable that is not Unicode is read as one that is not set.
api_key ==
  IF simulate THEN SimulatedKey
  ELSE IF QWEN_API_KEY \in NotUtf8 THEN "" ELSE QWEN_API_KEY

NoKey ==
  /\ main = "start" /\ api_key = ""
  /\ main' = "failed"
  /\ UNCHANGED <<vars, simulate, QWEN_API_KEY>>

\* SimulatedTee attests and seals whatever it is given.
Initialize ==
  /\ main = "start" /\ api_key # ""
  /\ main' = "frame"
  /\ initialize(api_key, TRUE, TRUE)
  /\ UNCHANGED <<simulate, QWEN_API_KEY>>

ProcessFrame ==
  /\ main = "frame"
  /\ main' = "answer"
  /\ process_frame(MainFrame)
  /\ UNCHANGED <<simulate, QWEN_API_KEY>>

\* The future of main is dropped by nobody.
Await ==
  /\ main = "answer"
  /\ \E reply \in Replies : Answer(MainFrame, reply)
  /\ UNCHANGED <<main, simulate, QWEN_API_KEY>>

\* ? ends main on an error; an answer is printed, its first choice included, and logged.
Finish ==
  /\ main = "answer" /\ pending = {}
  /\ LET response == returned[Len(returned)]
     IN  IF response.ok
         THEN generate_execution_log(response) /\ main' = "ok"
         ELSE main' = "failed" /\ UNCHANGED vars
  /\ UNCHANGED <<simulate, QWEN_API_KEY>>

MainNext ==
  \/ NoKey \/ Initialize \/ ProcessFrame \/ Await \/ Finish
  \/ main = "library" /\ Next /\ UNCHANGED <<main, simulate, QWEN_API_KEY>>

MainSpec == MainInit /\ [][MainNext]_mainVars

-----------------------------------------------------------------------------
(* Properties.                                                             *)

\* The binary calls the cloud only without --simulate, and only under the very key of the
\* environment, which it can unseal again; it succeeds exactly when its frame was
\* answered, and the answer was printed and logged without a panic.
OwnKeyOrNoCall ==
  main # "library" =>
    /\ pending # {} =>
         ~simulate /\ qwen_api_key = {QWEN_API_KEY} /\ unseal = [ok |-> TRUE, data |-> QWEN_API_KEY]
    /\ main = "ok" => Len(returned) = 1 /\ returned[1].ok /\ ~panicked
    /\ main = "failed" => \A i \in 1..Len(returned) : ~returned[i].ok
=============================================================================
