---------------------------- MODULE MCFrameGraph ----------------------------
EXTENDS FrameGraph

Setting(mode, denoiser, iters) == [mode |-> mode, denoiser |-> denoiser, iters |-> iters]

\* Both modes with and without a denoiser, both denoisers, and each number of
\* iterations from one too few to one too many.
MCFrames ==
    { Setting("PERFORMANCE", "NONE", 1), Setting("PERFORMANCE", "SVGF", 2),
      Setting("QUALITY", "NONE", 1),
      Setting("QUALITY", "ATROUS", 0), Setting("QUALITY", "ATROUS", 2),
      Setting("QUALITY", "SVGF", 1), Setting("QUALITY", "SVGF", 3) }

=============================================================================
