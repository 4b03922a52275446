------------------------------ MODULE MCEngine ------------------------------
(***************************************************************************)
(* Engine on lists of devices: one good device with every combination of   *)
(* up to three queue families of five kinds, and pairs of devices that     *)
(* differ in what isGpuGood looks at.                                      *)
(***************************************************************************)
EXTENDS Engine

GraphicsOnly == [queueCount |-> 1, queueFlags |-> {"graphics"}, presentSupport |-> FALSE]
ComputePresent == [queueCount |-> 2, queueFlags |-> {"compute", "transfer"}, presentSupport |-> TRUE]
All == [queueCount |-> 1, queueFlags |-> Operations, presentSupport |-> TRUE]
PresentOnly == [queueCount |-> 1, queueFlags |-> {}, presentSupport |-> TRUE]
Exhausted == [queueCount |-> 0, queueFlags |-> Operations, presentSupport |-> TRUE]
Kinds == {GraphicsOnly, ComputePresent, All, PresentOnly, Exhausted}

MCGpus(families) ==
    [families : families, extensions : Extensions, swapChain : BOOLEAN,
     samplerAnisotropy : BOOLEAN]

GoodGpus ==
    [families : BoundedSeq(Kinds, 3), extensions : {"swapchain"}, swapChain : {TRUE},
     samplerAnisotropy : {TRUE}]

\* No device, one device or two devices.
MCGpuLists ==
    {<< >>} \cup {<<g>> : g \in GoodGpus}
    \cup {<<g, h>> : g, h \in MCGpus({<<GraphicsOnly>>, <<All>>, <<Exhausted, All>>})}
=============================================================================
