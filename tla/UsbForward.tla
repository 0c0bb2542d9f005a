------------------------------ MODULE UsbForward ------------------------------
(***************************************************************************)
(* A USB device of the client as a device of the Mac (usb_redirect/mod.rs).*)
(* One task per announcement claims the device, makes a controller for it  *)
(* and takes transfers off a queue; each transfer is forwarded by a task   *)
(* of its own, which keeps the controller alive until it has completed.    *)
(* The client may announce one device on several channels.                 *)
(***************************************************************************)
EXTENDS FiniteSets

CONSTANTS
    Channels,     \* URBDRC channels, all of the same device
    Transfers,    \* transfers the kernel raises; each at one endpoint
    Endpoint      \* [Transfers -> {"control", "bulk", "interrupt"}]

VARIABLES
    link,        \* each channel: away | open | closed
    driver,      \* its task: none | reads | configures | serves | done
    presented,   \* PRESENTED_DEVICES: the device is claimed
    hosts,       \* channels whose controller exists
    pipes,       \* channels whose configuration gave them pipes
    raised,      \* transfers in the queue of each channel
    flying,      \* transfers with a task
    answer       \* external: what the kernel was told of each: none | ok | stall

usbVars == <<link, driver, presented, hosts, pipes, raised, flying, answer>>

Owner(t) == {c \in hosts : t \in raised[c] \cup flying[c]}
-------------------------------------------------------------------------------
UsbInit ==
    /\ link = [c \in Channels |-> "away"] /\ driver = [c \in Channels |-> "none"]
    /\ presented = FALSE /\ hosts = {} /\ pipes = {}
    /\ raised = [c \in Channels |-> {}] /\ flying = [c \in Channels |-> {}]
    /\ answer = [t \in Transfers |-> "none"]

\* drive_device asks for the descriptor first.
Plugged(c) ==
    /\ link[c] = "away"
    /\ link' = [link EXCEPT ![c] = "open"] /\ driver' = [driver EXCEPT ![c] = "reads"]
    /\ UNCHANGED <<presented, hosts, pipes, raised, flying, answer>>

Unplugged(c) ==
    /\ link[c] = "open" /\ link' = [link EXCEPT ![c] = "closed"]
    /\ UNCHANGED <<driver, presented, hosts, pipes, raised, flying, answer>>

\* claim_device, unless there is no descriptor, and the controller.
Claims(c) ==
    /\ driver[c] = "reads" /\ link[c] = "open" /\ ~presented
    /\ driver' = [driver EXCEPT ![c] = "configures"]
    /\ presented' = TRUE /\ hosts' = hosts \cup {c}
    /\ UNCHANGED <<link, pipes, raised, flying, answer>>

\* Another channel has claimed it, or one of the three is not to be had.
GivesUp(c) ==
    /\ driver[c] = "reads" /\ driver' = [driver EXCEPT ![c] = "done"]
    /\ UNCHANGED <<link, presented, hosts, pipes, raised, flying, answer>>

\* select_client_config: two descriptors, and within five seconds the configuration;
\* or without pipes.
Configured(c) ==
    /\ driver[c] = "configures"
    /\ driver' = [driver EXCEPT ![c] = "serves"]
    /\ pipes' \in {pipes, IF link[c] = "open" THEN pipes \cup {c} ELSE pipes}
    /\ UNCHANGED <<link, presented, hosts, raised, flying, answer>>

\* The kernel raises one transfer an endpoint at a time: the callbacks queue it.
Raised(c, t) ==
    /\ c \in hosts /\ answer[t] = "none" /\ Owner(t) = {}
    /\ driver[c] \in {"configures", "serves"}
    /\ raised' = [raised EXCEPT ![c] = @ \cup {t}]
    /\ UNCHANGED <<link, driver, presented, hosts, pipes, flying, answer>>

\* Mutant: one transfer at a time.
InTurn(c, t) == driver[c] = "serves" /\ t \in raised[c] /\ flying[c] = {}

\* Whatever else is under way.
Due(c, t) == driver[c] = "serves" /\ t \in raised[c]

\* present_device's loop: a pipe it does not know stalls, all else gets a task.
Taken(c, t) ==
    /\ Due(c, t)
    /\ raised' = [raised EXCEPT ![c] = @ \ {t}]
    /\ IF Endpoint[t] # "control" /\ c \notin pipes
       THEN answer' = [answer EXCEPT ![t] = "stall"] /\ UNCHANGED flying
       ELSE flying' = [flying EXCEPT ![c] = @ \cup {t}] /\ UNCHANGED answer
    /\ UNCHANGED <<link, driver, presented, hosts, pipes>>

\* The client has answered, or its channel has closed: only an interrupt
\* endpoint is spared the stall, and only while there is a client.
Outcome(c, t) ==
    IF link[c] = "closed" THEN {"stall"}
    ELSE IF Endpoint[t] = "interrupt" THEN {"ok"} ELSE {"ok", "stall"}

Completes(c, t) ==
    /\ t \in flying[c]
    /\ \E o \in Outcome(c, t) : answer' = [answer EXCEPT ![t] = o]
    /\ flying' = [flying EXCEPT ![c] = @ \ {t}]
    /\ hosts' = IF driver[c] = "done" /\ flying'[c] = {} THEN hosts \ {c} ELSE hosts
    /\ UNCHANGED <<link, driver, presented, pipes, raised>>

\* handle.closed(): what is queued is not taken any more, the claim is given back,
\* and the controller goes with its last task.
Ends(c) ==
    /\ driver[c] = "serves" /\ link[c] = "closed"
    /\ driver' = [driver EXCEPT ![c] = "done"] /\ presented' = FALSE
    /\ raised' = [raised EXCEPT ![c] = {}]
    /\ hosts' = IF flying[c] = {} THEN hosts \ {c} ELSE hosts
    /\ UNCHANGED <<link, pipes, flying, answer>>
-------------------------------------------------------------------------------
Prompt(c) == Claims(c) \/ GivesUp(c) \/ Configured(c) \/ Ends(c) \/ \E t \in Transfers : Taken(c, t)

UsbNext ==
    \E c \in Channels :
        \/ Plugged(c) \/ Unplugged(c) \/ Prompt(c)
        \/ \E t \in Transfers : Raised(c, t) \/ Completes(c, t)

\* A device may leave a read unanswered for as long as it likes: only control
\* requests are answered in the end, and everything once the channel has closed.
GoesOn(c) ==
    \/ Prompt(c)
    \/ \E t \in Transfers : (Endpoint[t] = "control" \/ link[c] = "closed") /\ Completes(c, t)

UsbFair == \A c \in Channels : WF_usbVars(GoesOn(c))

UsbSpec == UsbInit /\ [][UsbNext]_usbVars /\ UsbFair
-------------------------------------------------------------------------------
\* A control request is answered, or its controller goes, however long a read at
\* another endpoint waits: a wedged transfer does not hold up the reset that is
\* to clear it, nor the teardown.
ControlIsServed ==
    []<>(\A t \in Transfers : Endpoint[t] = "control" => Owner(t) = {})
=============================================================================
