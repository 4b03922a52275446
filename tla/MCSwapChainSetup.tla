-------------------------- MODULE MCSwapChainSetup --------------------------
(***************************************************************************)
(* SwapChainSetup on drivers that differ in every offer that it looks at.  *)
(***************************************************************************)
EXTENDS SwapChainSetup

Size(n, m) == [width |-> n, height |-> m]
Other == [format |-> "R8G8B8A8_UNORM", colorSpace |-> "SRGB_NONLINEAR"]
Hdr == [format |-> "B8G8R8A8_UNORM", colorSpace |-> "HDR10_ST2084"]

\* The surfaces: every order of up to two formats and of the present modes, a
\* fixed or a free extent, and limits on the number of images.
Surfaces ==
    {d \in [minImageCount : 1 .. 2, maxImageCount : 0 .. 3,
            currentExtent : {Size(2, 3), Size(Bad, Bad)},
            minImageExtent : {Size(0, 0), Size(1, 2)}, maxImageExtent : {Size(4, 4)},
            formats : {<<Hdr>>, <<Other, Hdr>>, <<Hdr, Preferred>>},
            presentModes : {<<"fifo">>, <<"fifo", "immediate">>, <<"fifo", "immediate", "mailbox">>},
            depthFormats : {{"D24_UNORM_S8_UINT"}},
            memoryTypes : {<<{"host_visible"}, {"device_local"}>>}, memoryTypeBits : {{1, 2}}] :
        d.maxImageCount # 0 => d.minImageCount <= d.maxImageCount}

\* Devices with one surface: every support of depth formats, and every choice
\* of memory types for the images.
Devices ==
    [minImageCount : {2}, maxImageCount : {0}, currentExtent : {Size(2, 3)},
     minImageExtent : {Size(1, 1)}, maxImageExtent : {Size(4, 4)},
     formats : {<<Preferred>>}, presentModes : {<<"fifo">>},
     depthFormats : SUBSET ToSet(DepthFormats),
     memoryTypes : {<<{"device_local"}, {"host_visible"}, {"device_local", "host_visible"}>>},
     memoryTypeBits : SUBSET (1 .. 3)]

MCDrivers == Surfaces \cup Devices
=============================================================================
