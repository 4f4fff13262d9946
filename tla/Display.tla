------------------------------- MODULE Display -------------------------------
(***************************************************************************)
(* The server's window (class Application): the Direct3D device and what is *)
(* made with it, from Initialize through RunMessageLoop, which paints once  *)
(* in every pass of the server, to the destructor.  The device may be lost  *)
(* at any time and any creation may fail.  Objects are told apart by the    *)
(* number of the device they were made with; 0 is a NULL pointer.           *)
(***************************************************************************)
EXTENDS Naturals, FiniteSets

CONSTANTS MaxDevices,   \* bound: the devices the system ever gives
          MaxFaults,    \* bound: the losses and failures
          MaxMessages   \* bound: the messages for the window

ASSUME DisplayAssumption ==
    MaxDevices \in Nat \ {0} /\ MaxFaults \in Nat /\ MaxMessages \in Nat

\* What is made with the device, by its place in CreateDeviceResources.
Place == [swapChain |-> 1, state |-> 2, renderTargetView |-> 3, loupeTexture |-> 4,
          backBufferRT |-> 5, textBrush |-> 6, loupeBrush |-> 7, loupeBitmap |-> 8]
Resource == DOMAIN Place

Device == 1 .. MaxDevices

VARIABLES stage,        \* of the process: "starting", "running", "quitting", "over"
          messages, posted,     \* those the window has still to be given, and all
          parent,       \* parent_ of the root component, which nothing sets
          ShowText,     \* which nothing sets either
          device,       \* m_pDevice
          held,         \* the other pointers
          lost,         \* whether the current device is lost
          made,         \* the devices made so far
          forgotten,    \* the objects whose last pointer was written over
          picture,      \* what the last OnRender left: "none", "shown", "dark"
          faults

displayVars == <<stage, messages, posted, parent, ShowText, device, held, lost, made,
                 forgotten, picture, faults>>
loop == <<stage, messages, posted, parent, ShowText>>

\* The constructor sets the pointers; parent_ and ShowText stay as they were.
DisplayInit ==
    /\ stage = "starting" /\ messages = 0 /\ posted = 0
    /\ parent \in {"null", "garbage"} /\ ShowText \in BOOLEAN
    /\ device = 0 /\ held = [r \in Resource |-> 0]
    /\ lost = FALSE /\ made = 0 /\ forgotten = {} /\ picture = "none" /\ faults = 0

Fault(n) == faults + n <= MaxFaults /\ faults' = faults + n

\* The objects that writing over the pointers of rs leaves without a pointer.
Overwritten(rs, h) == {<<r, h[r]>> : r \in {s \in rs : h[s] # 0}}

\* CreateDeviceIndependentResources, called before the window is made and again
\* after: the second call writes over the first one's factories.
Factories == {"D2DFactory", "DWriteFactory", "TextFormat"}

Initialize ==
    /\ stage = "starting"
    /\ \/ /\ stage' = "running" /\ UNCHANGED faults
          /\ forgotten' = Factories \X {0}
       \/ stage' = "over" /\ Fault(1) /\ UNCHANGED forgotten
    /\ UNCHANGED <<messages, posted, parent, ShowText, device, held, lost, made, picture>>

------------------------------------------------------------------------------
(* CreateDeviceResources. *)

\* The device there is or the one that is made now, by the hardware or, when
\* that fails or cannot multisample, by WARP.
Current == IF device = 0 THEN made + 1 ELSE device

CreateDevice == Current \in Device /\ made' = IF device = 0 THEN Current ELSE made

\* Mutant: what is there is made again.
ToMake_Always == 1 .. Cardinality(Resource)

\* The places of what CreateDeviceResources is to make: nothing when there is a
\* swap chain.
ToMake == IF held["swapChain"] = 0 THEN 1 .. Cardinality(Resource) ELSE {}

\* The pointers when what is at the places ps has been made.
MadeAt(ps) == [r \in Resource |-> IF Place[r] \in ps THEN Current ELSE held[r]]
Overwrites(ps) == Overwritten({r \in Resource : Place[r] \in ps}, held)

\* Mutant: the target's view is not released.
DiscardDeviceResources_NoView(h) ==
    [r \in Resource |-> IF r \in {"loupeBrush", "renderTargetView"} THEN h[r] ELSE 0]

\* It leaves out the loupe's brush.
DiscardDeviceResources(h) == [r \in Resource |-> IF r = "loupeBrush" THEN h[r] ELSE 0]

\* Mutant: the device is kept.
LoseDevice_Kept(h) ==
    /\ held' = DiscardDeviceResources(h)
    /\ UNCHANGED <<device, lost>>

\* An error that says the device is lost: everything is to be made again.
LoseDevice(h) ==
    /\ device' = 0 /\ lost' = FALSE
    /\ held' = DiscardDeviceResources(h)

------------------------------------------------------------------------------
(* RunMessageLoop. *)

Idle == stage = "running" /\ messages = 0

\* No device: OnRender leaves it at that.
RenderWithoutDevice ==
    /\ Idle /\ device = 0 /\ Fault(1) /\ picture' = "dark"
    /\ UNCHANGED <<loop, device, held, lost, made, forgotten>>

\* The step at place n fails, a lost device at the first.
RenderCreationFails ==
    /\ Idle /\ CreateDevice
    /\ \E n \in ToMake : \E says \in {"lost", "other"} :
          LET before == 1 .. n - 1
          IN  /\ IF lost THEN n = 1 /\ says = "lost" /\ UNCHANGED faults ELSE Fault(1)
              /\ forgotten' = forgotten \cup Overwrites(before)
              /\ IF says = "lost" THEN LoseDevice(MadeAt(before))
                 ELSE device' = Current /\ held' = MadeAt(before) /\ UNCHANGED lost
    /\ picture' = "dark" /\ UNCHANGED loop

\* Everything there is to be made is made, but there is no target to draw on:
\* an earlier call has failed behind the swap chain.
RenderNothing ==
    /\ Idle /\ ToMake = {} /\ held["backBufferRT"] = 0
    /\ picture' = "dark"
    /\ UNCHANGED <<loop, device, held, lost, made, forgotten, faults>>

\* RenderTextInfo makes its format and its brush anew for every picture.
TextObjects(h) ==
    IF ShowText THEN Overwritten({"textBrush"}, h) \cup {<<"TextFormat", 0>>} ELSE {}

\* A picture is drawn and presented, or fails at EndDraw or Present.  Render
\* follows the root's parent, and may crash on it.
RenderPicture ==
    LET h == MadeAt(ToMake)
    IN  /\ Idle /\ CreateDevice /\ h["backBufferRT"] # 0
        /\ lost => ToMake = {}
        /\ forgotten' = forgotten \cup Overwrites(ToMake)
                                  \cup (IF lost THEN {} ELSE TextObjects(h))
        /\ \/ lost /\ LoseDevice(h) /\ picture' = "dark" /\ UNCHANGED <<stage, faults>>
           \/ /\ ~lost /\ UNCHANGED lost /\ device' = Current /\ held' = h
              /\ \/ parent = "garbage" /\ stage' = "over" /\ UNCHANGED <<picture, faults>>
                 \/ picture' = "shown" /\ UNCHANGED <<stage, faults>>
                 \/ picture' = "dark" /\ Fault(1) /\ UNCHANGED stage
        /\ UNCHANGED <<messages, posted, parent, ShowText>>

\* WndProc: nothing of a message changes the display; that of WM_DESTROY posts
\* WM_QUIT, which comes when the other messages have been taken.
Dispatch ==
    /\ stage \in {"running", "quitting"} /\ messages > 0
    /\ messages' = messages - 1
    /\ stage' \in {stage, "quitting"}
    /\ UNCHANGED <<posted, parent, ShowText, device, held, lost, made, forgotten, picture, faults>>

\* The destructor releases what is held.
Quit ==
    /\ stage = "quitting" /\ messages = 0 /\ stage' = "over"
    /\ device' = 0 /\ held' = [r \in Resource |-> 0] /\ lost' = FALSE
    /\ UNCHANGED <<messages, posted, parent, ShowText, made, forgotten, picture, faults>>

------------------------------------------------------------------------------
(* The system. *)

DeviceLost ==
    /\ device # 0 /\ ~lost /\ stage = "running" /\ Fault(1)
    /\ lost' = TRUE
    /\ UNCHANGED <<loop, device, held, made, forgotten, picture>>

MessageComes ==
    /\ stage = "running" /\ posted < MaxMessages
    /\ messages' = messages + 1 /\ posted' = posted + 1
    /\ UNCHANGED <<stage, parent, ShowText, device, held, lost, made, forgotten, picture, faults>>

OnRender == RenderWithoutDevice \/ RenderCreationFails \/ RenderNothing \/ RenderPicture

DisplayNext == Initialize \/ OnRender \/ Dispatch \/ Quit \/ DeviceLost \/ MessageComes

DisplaySpec == DisplayInit /\ [][DisplayNext]_displayVars

\* The loop goes round; a message may always be one more.
FairDisplaySpec ==
    /\ DisplaySpec
    /\ WF_displayVars(Initialize) /\ WF_displayVars(OnRender) /\ WF_displayVars(Dispatch \/ Quit)

------------------------------------------------------------------------------
(* Properties. *)

\* Types.
DisplayTypeOK ==
    /\ stage \in {"starting", "running", "quitting", "over"}
    /\ messages <= posted /\ posted <= MaxMessages
    /\ parent \in {"null", "garbage"} /\ ShowText \in BOOLEAN
    /\ device \in {0} \cup Device /\ made \in {0} \cup Device
    /\ held \in [Resource -> {0} \cup Device]
    /\ lost \in BOOLEAN /\ (lost => device # 0)
    /\ forgotten \subseteq (Resource \cup Factories) \X ({0} \cup Device)
    /\ picture \in {"none", "shown", "dark"} /\ faults <= MaxFaults

\* The state has its types.  OnRender looks only at the render target before it
\* uses the swap chain, and CreateDeviceResources only at the swap chain before it
\* leaves the rest alone: so all but the loupe's brush is always of the current
\* device, and nothing is there without what was made before it.
OneDevice ==
    /\ DisplayTypeOK
    /\ \A r \in Resource \ {"loupeBrush"} :
          held[r] # 0 => /\ held[r] = device
                         /\ \A s \in Resource : Place[s] < Place[r] => held[s] = device

\* What is made with a device is released before its pointer is set again, but
\* for the two brushes: the text's, which every picture makes anew, and the
\* loupe's, which DiscardDeviceResources leaves.
OnlyBrushesForgotten ==
    \A f \in forgotten : f[1] \in Resource => f[1] \in {"textBrush", "loupeBrush"}

\* The window shows the match again after every loss of the device, unless a
\* creation has failed behind the swap chain with another error: then it stays
\* dark, and nothing asks whether the device is lost.
HalfMade == held["swapChain"] # 0 /\ held["backBufferRT"] = 0

Repainted == []<>(picture = "shown" \/ HalfMade \/ stage = "over")
==============================================================================
